---- MODULE Spec2Model ----
(***************************************************************************)
(* vitest-mcp-server: the run-vitest and run-vitest-coverage tool handlers *)
(* (spawn variants).  One tool invocation is modelled: the resolution of   *)
(* the project directory, the spawned runner with its stdout / stderr /    *)
(* close / error events and timers, the promise the handler awaits, the    *)
(* JSON parse, the coverage artifact polling and the returned result.      *)
(*                                                                         *)
(* Text is a sequence of lexemes.  Each lexeme stands for a fixed piece of *)
(* runner output (see Width); the markers the handlers look for are        *)
(* sequences of lexemes, so "includes" and "endsWith" are real searches.   *)
(* Paths are sequences of segments, <<>> being the filesystem root.        *)
(***************************************************************************)
EXTENDS Integers, Sequences, FiniteSets, TLC

\* ------------------------------------------------------------------ bounds

\* Most stdout chunks delivered in one run.
MaxChunks == 3
\* Most stderr chunks delivered in one run.
MaxErrChunks == 1

\* -------------------------------------------------------- program constants

\* `stdout.length > 500` in run-vitest.
MinLength == 500

\* ------------------------------------------------------------------- text

\* The number of characters a lexeme stands for.
Width(t) ==
  CASE t = "nt"   -> 16      \* "numTotalTests":
    [] t = "np"   -> 17      \* "numPassedTests":
    [] t = "nf"   -> 17      \* "numFailedTests":
    [] t = "tr"   -> 14      \* "testResults":
    [] t = "body" -> 512     \* the serialised per-file results
    [] t = "log"  -> 24      \* a stray log line
    [] OTHER      -> 1       \* { } [ ] , a digit, a whitespace character

RECURSIVE Length(_)
\* String.prototype.length of the text.
Length(s) == IF s = <<>> THEN 0 ELSE Width(Head(s)) + Length(Tail(s))

\* String.prototype.includes.
Includes(s, m) ==
  \E i \in 0..(Len(s) - Len(m)) : SubSeq(s, i + 1, i + Len(m)) = m

RECURSIVE TrimStart(_)
TrimStart(s) ==
  IF s # <<>> /\ Head(s) = "ws" THEN TrimStart(Tail(s)) ELSE s

RECURSIVE TrimEnd(_)
TrimEnd(s) ==
  IF s # <<>> /\ s[Len(s)] = "ws" THEN TrimEnd(SubSeq(s, 1, Len(s) - 1)) ELSE s

\* String.prototype.trim.
Trim(s) == TrimEnd(TrimStart(s))

\* String.prototype.endsWith.
EndsWith(s, m) ==
  Len(s) >= Len(m) /\ SubSeq(s, Len(s) - Len(m) + 1, Len(s)) = m

\* The markers of the completion heuristic.
TestResultsMarker == <<"tr", "[">>
ClosingSequence == <<"]", "}">>
TotalMarker == <<"nt">>
PassedMarker == <<"np">>

hasTestResults(s) == Includes(s, TestResultsMarker)

\* Faulty variants of the ending test: any closing brace; no trim.
hasProperEndingAnyBrace(s) == EndsWith(Trim(s), <<"}">>)
hasProperEndingUntrimmed(s) == EndsWith(s, ClosingSequence)
hasProperEnding(s) == EndsWith(Trim(s), ClosingSequence)

hasValidStructure(s) == Includes(s, TotalMarker) /\ Includes(s, PassedMarker)

\* The three textual conditions both handlers test on every chunk.
HeuristicHolds(s) == hasTestResults(s) /\ hasProperEnding(s) /\ hasValidStructure(s)

\* The whole condition of the `if`, without the outputComplete guard.
RvComplete(s) == HeuristicHolds(s) /\ Length(s) > MinLength
\* Faulty variant: the ending alone decides.
RvcCompleteEndingOnly(s) == hasProperEnding(s)
RvcComplete(s) == HeuristicHolds(s)

\* ------------------------------------------------------------------- JSON

Digits == {"1", "2", "3"}
NumKeys == {"nt", "np", "nf"}
DigitValue(d) == CASE d = "1" -> 1 [] d = "2" -> 2 [] d = "3" -> 3 [] OTHER -> 0

\* Whitespace between JSON tokens is insignificant.
StripWs(s) == SelectSeq(s, LAMBDA t : t # "ws")

ParseFail == [ok |-> FALSE, obj |-> <<>>]
ParseOk(o) == [ok |-> TRUE, obj |-> o]

\* obj with key k set to v (a later duplicate key wins).
SetKey(o, k, v) == [x \in DOMAIN o \cup {k} |-> IF x = k THEN v ELSE o[x]]

RECURSIVE ParseMember(_, _), ParseRest(_, _), ParseArray(_, _, _)
\* One member at the head of t, then the rest of the object body.
ParseMember(t, o) ==
  IF Len(t) >= 2 /\ t[1] \in NumKeys /\ t[2] \in Digits
    THEN ParseRest(SubSeq(t, 3, Len(t)), SetKey(o, t[1], DigitValue(t[2])))
  ELSE IF Len(t) >= 2 /\ t[1] = "tr" /\ t[2] = "["
    THEN ParseArray(SubSeq(t, 3, Len(t)), o, 0)
  ELSE ParseFail
\* The elements of the testResults array, n of them read so far.
ParseArray(t, o, n) ==
  IF t = <<>> THEN ParseFail
  ELSE IF Head(t) = "body" THEN ParseArray(Tail(t), o, n + 1)
  ELSE IF Head(t) = "]" THEN ParseRest(Tail(t), SetKey(o, "tr", n))
  ELSE ParseFail
\* After a member: the end of the body, or a comma and another member.
ParseRest(t, o) ==
  IF t = <<>> THEN ParseOk(o)
  ELSE IF Head(t) = "," THEN ParseMember(Tail(t), o)
  ELSE ParseFail

\* JSON.parse of the text: [ok, obj], obj a function from the keys present.
JSONParse(s) ==
  LET t == StripWs(s) IN
    IF Len(t) < 2 \/ t[1] # "{" \/ t[Len(t)] # "}" THEN ParseFail
    ELSE IF Len(t) = 2 THEN ParseOk(<<>>)
    ELSE ParseMember(SubSeq(t, 2, Len(t) - 1), <<>>)

\* ------------------------------------------------------------ environment

\* The input chunks: the three chunks of the streamed payload whose last key
\* is numFailedTests, a final chunk that closes the payload after the results
\* list, the same without results and with a trailing newline, and the whole
\* payload in one chunk.
ChunkTotal == <<"{", "nt", "3", ",">>
ChunkPassedResults == <<"np", "2", ",", "tr", "[">>
ChunkFailedLast == <<"body", "]", ",", "nf", "1", "}">>
ChunkClose == <<"body", "]", "}">>
ChunkCloseShort == <<"]", "}", "ws">>
ChunkWhole == <<"{", "nt", "3", ",", "np", "2", ",", "tr", "[", "body", "]", "}">>
Chunks ==
  {ChunkTotal, ChunkPassedResults, ChunkFailedLast, ChunkClose, ChunkCloseShort,
   ChunkWhole}
ErrChunks == {<<"log">>}

\* The exit code of a close event; NullCode is JavaScript's null, the code of
\* a runner that was ended by a signal.
NullCode == 0 - 1
\* All tests passed, some failed, another failure, ended by a signal.
CloseCodes == {0, 1, 2, NullCode}

Tools == {"run-vitest", "run-vitest-coverage"}

\* null for a path.
NoDir == <<"(null)">>
StartCwd == <<"proj", "src">>
ProjDir == <<"proj">>
GoneDir == <<"gone">>
\* The directories that exist, and those holding a vitest/vite config file.
ExistingDirs == {<<>>, ProjDir, StartCwd}
ConfigFiles == {<<ProjDir, "vitest.config.ts">>}
ConfigDirs == {file[1] : file \in ConfigFiles}
\* Faulty variant: the directory is taken to exist without looking.
existsSyncAssumed(d) == TRUE
existsSync(d) == d \in ExistingDirs

\* path.dirname.
dirname(d) == IF d = <<>> THEN d ELSE SubSeq(d, 1, Len(d) - 1)

\* The config file names the search looks for, in its order.
vitestConfigs ==
  <<"vitest.config.ts", "vitest.config.js", "vitest.config.mjs",
    "vite.config.ts", "vite.config.js", "vite.config.mjs">>

\* existsSync(resolve(currentDir, config)) for one of the names; files is the
\* file system, a set of <<directory, name>>.
HasConfig(files, currentDir) ==
  \E i \in 1..Len(vitestConfigs) : <<currentDir, vitestConfigs[i]>> \in files

RECURSIVE findProjectDirectory(_, _)
\* The upward search for a config file; it stops short of the root.
findProjectDirectory(files, currentDir) ==
  IF currentDir = <<>> THEN NoDir
  ELSE IF HasConfig(files, currentDir) THEN currentDir
  ELSE findProjectDirectory(files, dirname(currentDir))

\* Faulty variant: the environment is asked before the argument.
ResolveEnvFirst(argDir, envValue, cwdNow) ==
  IF envValue # NoDir THEN envValue
  ELSE IF argDir # NoDir THEN argDir
  ELSE IF findProjectDirectory(ConfigFiles, cwdNow) # NoDir
    THEN findProjectDirectory(ConfigFiles, cwdNow)
  ELSE cwdNow
\* Steps 1 to 4 of the project directory resolution.
ResolveProjectDir(argDir, envValue, cwdNow) ==
  IF argDir # NoDir THEN argDir
  ELSE IF envValue # NoDir THEN envValue
  ELSE IF findProjectDirectory(ConfigFiles, cwdNow) # NoDir
    THEN findProjectDirectory(ConfigFiles, cwdNow)
  ELSE cwdNow

\* ------------------------------------------------------------------ values

NoError == [kind |-> "none", code |-> 0, stderr |-> <<>>, outLen |-> 0, errLen |-> 0]
\* `Project directory does not exist: ${projectDir}`.
ConfigError == [NoError EXCEPT !.kind = "config"]
\* `Failed to start vitest: ...` / `Failed to spawn vitest: ...`.
SpawnError == [NoError EXCEPT !.kind = "spawn"]
\* `... failed with (exit) code ${code}. stderr: ${stderr}`.
ExitError(code, err) == [NoError EXCEPT !.kind = "exit", !.code = code, !.stderr = err]
\* `... execution timeout after N seconds. Debug: ... stdout.length=, stderr.length=`.
TimeoutError(out, err) ==
  [NoError EXCEPT !.kind = "timeout", !.outLen = Length(out), !.errLen = Length(err)]
\* `Failed to parse vitest output as JSON: ${error}`.
ParseError == [NoError EXCEPT !.kind = "parse"]
\* The TypeError of reading a property of null while the report is built.
ReportError == [NoError EXCEPT !.kind = "report"]

Pending == [state |-> "pending", value |-> <<>>, error |-> NoError]
Resolved(text) == [state |-> "resolved", value |-> text, error |-> NoError]
Rejected(e) == [state |-> "rejected", value |-> <<>>, error |-> e]

\* Faulty variant: a later resolve() or reject() replaces the outcome.
SettleOverwrites(p, outcome) == outcome
\* resolve() and reject() of a promise act once; later calls are ignored.
Settle(p, outcome) == IF p.state = "pending" THEN outcome ELSE p

VARIABLES
  tool,            \* which tool the invocation is of
  pc,              \* the handler: "idle", "awaiting", "polling" or "returned"
  cwd,             \* process.cwd()
  nodeEnv,         \* process.env.NODE_ENV
  envDir,          \* process.env.VITEST_PROJECT_DIR
  projectDir,      \* the resolved project directory
  originalCwd,     \* the handler's originalCwd
  spawned,         \* the runner has been spawned
  closed,          \* the runner's close event has been delivered
  exitCode,        \* the code of that close event
  errored,         \* the runner's error event has been delivered
  signals,         \* the signals sent to the runner, in order
  stdout, stderr,  \* the handler's buffers
  nOut, nErr,      \* the chunks delivered so far
  outputComplete,  \* the handler's outputComplete
  timeoutArmed,    \* the hard timeout is pending
  timerFired,      \* the hard timeout's callback has run
  graceArmed,      \* run-vitest's 50 ms timer is pending
  promise,         \* the promise the handler awaits
  results,         \* JSON.parse(vitestOutput), once parsed
  pollIdx,         \* the index in `delays` of the next check
  waited,          \* the delays the polling loop has slept, in order
  coverageSummary, \* the handler's coverageSummary
  coverageData,    \* the handler's coverageData
  result,          \* what the handler returned
  fn,              \* the coverage helper under analysis, "none" during a run
  done,            \* that helper has been applied
  lines,           \* groupLinesIntoRanges: its argument
  ranges,          \* groupLinesIntoRanges: what it returned
  fileCoverage,    \* extractUncoveredLines: its argument, keyed by file
  uncoveredLines,  \* extractUncoveredLines: what it returned
  earlier,         \* what it returned before each later change of a count,
                   \* and the reducer's entry before each time it ran again
  fileSummary,     \* the reducer: the summary entry of the file
  entry,           \* the reducer: the entry it emitted for the file
  testFiles,       \* result building: vitest.state.getFiles()
  report,          \* result building: the `results` object built from them
  argProjectDir,   \* directory resolution: args.projectDir
  wrapped,         \* index.ts: the caching wrappers are installed
  latestTestResults,     \* index.ts: the cache of test results
  latestCoverageResults, \* index.ts: the cache of coverage results
  lastCall,        \* the tool called last and the text it returned
  response,        \* what the resource read last answered
  calls,           \* two invocations in one process: where each is, and its
                   \* originalCwd and projectDir
  pathArgs,        \* the reducer's key: projectDir and fullPath, as texts
  search,          \* findProjectDirectory: startDir, the file system, the result
  relativePath     \* the reducer's key: relativePath

\* The state of one tool invocation.
runVars ==
  <<tool, pc, cwd, nodeEnv, envDir, projectDir, originalCwd, spawned, closed,
    exitCode, errored, signals, stdout, stderr, nOut, nErr, outputComplete,
    timeoutArmed, timerFired, graceArmed, promise, results, pollIdx, waited,
    coverageSummary, coverageData, result>>
\* The state of a coverage helper applied on its own.
\* The state of the server around the tools.
serverVars ==
  <<wrapped, latestTestResults, latestCoverageResults, lastCall, response, calls,
    pathArgs, search, relativePath>>
buildVars == <<testFiles, report, argProjectDir, serverVars>>
helperVars ==
  <<fn, done, lines, ranges, fileCoverage, uncoveredLines, earlier, fileSummary,
    entry, buildVars>>

vars == <<runVars, helperVars>>

procVars ==
  <<spawned, closed, exitCode, errored, signals, stdout, stderr, nOut, nErr,
    outputComplete, timeoutArmed, timerFired, graceArmed>>
dirVars == <<tool, cwd, nodeEnv, envDir, projectDir, originalCwd>>
coverageVars == <<pollIdx, waited, coverageSummary, coverageData>>

NotParsed == [ok |-> FALSE, obj |-> <<"(not parsed)">>]
NoResult == [kind |-> "none", error |-> NoError, report |-> <<>>]
ErrorResult(e) == [kind |-> "error", error |-> e, report |-> <<>>]

\* --------------------------------------------------------- coverage files

AppFile == <<"proj", "app", "a.ts">>
LibFile == <<"proj", "lib", "b.ts">>

\* path.includes('/app/'): a segment "app" that is not the last one.
InApp(path) == \E i \in 1..(Len(path) - 1) : path[i] = "app"

\* fullPath.replace(projectDir + '/', ''): the first occurrence of the prefix
\* text is removed; for a path below the project directory that is its head.
RelativePath(path, dir) ==
  IF Len(path) > Len(dir) /\ SubSeq(path, 1, Len(dir)) = dir
    THEN SubSeq(path, Len(dir) + 1, Len(path))
    ELSE path

\* A parsed JSON document: null, or an object keyed by file paths.
NullDoc == [isNull |-> TRUE, files |-> {}]
Doc(files) == [isNull |-> FALSE, files |-> files]
\* What a coverage file can hold on disk.
\* What a coverage file can be on disk: missing, unreadable or not JSON
\* ("broken"), or an object keyed by the two source files ("ok").
FileStates == {"missing", "broken", "ok"}
FileDoc(st) == IF st = "ok" THEN Doc({AppFile, LibFile}) ELSE NullDoc
\* existsSync is true of the file, and readFileSync or JSON.parse throws.
ReadThrows(st) == st = "broken"

\* coverageSummary after the try block that reads both files.
ReadSummary(listingThrows, summarySt) ==
  IF listingThrows \/ ReadThrows(summarySt) THEN NullDoc ELSE FileDoc(summarySt)
\* coverageData after the same block: a throw while the summary is read leaves it null.
ReadData(listingThrows, summarySt, finalSt) ==
  IF listingThrows \/ ReadThrows(summarySt) \/ ReadThrows(finalSt)
    THEN NullDoc ELSE FileDoc(finalSt)

\* The keys of coverageData the reducer visits.
appFiles(data) == {path \in data.files : InApp(path)}

\* `coverageSummary[fullPath]` of a null coverageSummary raises a TypeError.
ReduceThrows(summary, data) ==
  ~data.isNull /\ summary.isNull /\ appFiles(data) # {}

\* The keys of detailedFileCoverage.
detailedFileCoverage(summary, data, dir) ==
  IF data.isNull THEN {}
  ELSE {RelativePath(path, dir) : path \in {f \in appFiles(data) : f \in summary.files}}

NoCoverage == [kind |-> "none", files |-> {}]
\* The message / instruction object returned in place of the coverage map.
Placeholder == [kind |-> "placeholder", files |-> {}]
\* The `coverage` member of the returned object.
CoverageSection(summary, data, dir) ==
  IF summary.isNull THEN Placeholder
  ELSE [kind |-> "entries", files |-> detailedFileCoverage(summary, data, dir)]

\* `results.key || 0`.
OrZero(obj, k) == IF k \in DOMAIN obj THEN obj[k] ELSE 0

\* run-vitest returns JSON.stringify(results): the parsed object as it is.
RvReport(obj) == [kind |-> "report", error |-> NoError,
                  report |-> [obj |-> obj, coverage |-> NoCoverage]]
\* run-vitest-coverage returns the counts it read, defaulted, and the coverage.
RvcReport(obj, summary, data, dir) ==
  [kind |-> "report", error |-> NoError,
   report |-> [obj |-> [k \in {"nt", "np", "nf", "tr"} |-> OrZero(obj, k)],
               coverage |-> CoverageSection(summary, data, dir)]]

\* The number of entries of `delays`.
NumDelays == 3
\* Faulty variant: the longest delay comes first.
delaysDescending == <<1000, 500, 100>>
\* const delays = [100, 500, 1000].
delays == <<100, 500, 1000>>

\* -------------------------------------------------------- coverage helpers

\* The line numbers given to groupLinesIntoRanges are 0..MaxLow and 9..11 (so
\* that entries of one and of two digits both occur), at most MaxLines of them.
MaxLow == 2
MaxLines == 4
LineValues == (0..MaxLow) \cup (9..11)

\* A file of coverage-final.json has at most MaxStatements statements, on
\* lines 1..MaxStartLine, with execution counts 0..MaxCount.
MaxStatements == 2
MaxStartLine == 3
MaxCount == 2

RECURSIVE SortedInsert(_, _)
SortedInsert(x, s) ==
  IF s = <<>> THEN <<x>>
  ELSE IF x <= Head(s) THEN <<x>> \o s
  ELSE <<Head(s)>> \o SortedInsert(x, Tail(s))

\* Faulty variant: the list is left in the order it came in.
SortAscendingSkipped(s) == s

RECURSIVE SortAscending(_)
\* [...xs].sort((a, b) => a - b).
SortAscending(s) ==
  IF s = <<>> THEN <<>> ELSE SortedInsert(Head(s), SortAscending(Tail(s)))

\* Faulty variant: repeated values are kept.
UniqueSkipped(s) == s

RECURSIVE Unique(_)
\* Array.from(new Set(xs)): each value once, in the order of first occurrence.
Unique(s) ==
  IF s = <<>> THEN <<>>
  ELSE LET r == Unique(SubSeq(s, 1, Len(s) - 1))
           x == s[Len(s)]
       IN IF \E i \in DOMAIN r : r[i] = x THEN r ELSE Append(r, x)

DigitChars == <<"0", "1", "2", "3", "4", "5", "6", "7", "8", "9">>

RECURSIVE toString(_)
\* Number.prototype.toString of a non-negative integer: its decimal digits.
toString(n) ==
  IF n < 10 THEN <<DigitChars[n + 1]>>
  ELSE toString(n \div 10) \o <<DigitChars[(n % 10) + 1]>>

\* Faulty variant: a run is written by its first line only.
RangeTextStartOnly(start, end) == toString(start)

\* The text pushed for the run start..end: 'N', or 'A-B'.
RangeText(start, end) ==
  IF start = end THEN toString(start)
  ELSE toString(start) \o <<"-">> \o toString(end)

RECURSIVE GroupLoop(_, _, _, _, _)
\* The for loop from index i on, and the final push.
GroupLoop(sorted, i, start, end, acc) ==
  IF i > Len(sorted) THEN Append(acc, RangeText(start, end))
  ELSE IF sorted[i] = end + 1 THEN GroupLoop(sorted, i + 1, start, sorted[i], acc)
  ELSE GroupLoop(sorted, i + 1, sorted[i], sorted[i],
                 Append(acc, RangeText(start, end)))

groupLinesIntoRanges(ls) ==
  IF Len(ls) = 0 THEN <<>>
  ELSE LET sorted == SortAscending(ls)
       IN GroupLoop(sorted, 2, sorted[1], sorted[1], <<>>)

RECURSIVE Join(_, _)
\* Array.prototype.join.
Join(parts, sep) ==
  IF parts = <<>> THEN <<>>
  ELSE IF Len(parts) = 1 THEN parts[1]
  ELSE parts[1] \o sep \o Join(Tail(parts), sep)

\* A statement of a statement map: the line it starts on, or no `start`.
Statement(l) == [hasStart |-> TRUE, line |-> l]
NoStart == [hasStart |-> FALSE, line |-> 0]
StatementIds == 1..MaxStatements
StatementMaps ==
  UNION {[D -> {Statement(l) : l \in 1..MaxStartLine} \cup {NoStart}] :
           D \in SUBSET StatementIds}
CountMaps == UNION {[D -> 0..MaxCount] : D \in SUBSET StatementIds}

\* The value under a file key of the coverage data: null, a string, or an
\* object that may have a statementMap and may have the counts object `s`.
NullEntry ==
  [kind |-> "null", hasMap |-> FALSE, statementMap |-> <<>>,
   hasCounts |-> FALSE, s |-> <<>>]
TextEntry == [NullEntry EXCEPT !.kind = "string"]
ObjectEntry(hasMap, map, hasCounts, counts) ==
  [kind |-> "object", hasMap |-> hasMap, statementMap |-> map,
   hasCounts |-> hasCounts, s |-> counts]
FileValues ==
  {NullEntry, TextEntry, ObjectEntry(FALSE, <<>>, FALSE, <<>>)}
    \cup {ObjectEntry(FALSE, <<>>, TRUE, c) : c \in CountMaps}
    \cup {ObjectEntry(TRUE, m, FALSE, <<>>) : m \in StatementMaps}
    \cup {ObjectEntry(TRUE, m, TRUE, c) : m \in StatementMaps, c \in CountMaps}

\* Faulty variant: no guard, every entry is analysed.
AnalysableUnguarded(fileData) == TRUE

\* The two guards: entries that pass them are analysed, the others skipped.
Analysable(fileData) == fileData.kind = "object" /\ fileData.hasMap

RECURSIVE IdsFrom(_, _)
IdsFrom(i, D) ==
  IF i > MaxStatements THEN <<>>
  ELSE (IF i \in D THEN <<i>> ELSE <<>>) \o IdsFrom(i + 1, D)
\* The keys Object.entries visits: integer keys in ascending order.
Keys(f) == IdsFrom(1, DOMAIN f)

\* Faulty variant: a statement counts as uncovered when it did run.
IsUncoveredCountInverted(count) == count # 0
\* Faulty variant: a statement run once still counts as uncovered.
IsUncoveredCountAtMostOne(count) == count <= 1

\* `count === 0`.
IsUncoveredCount(count) == count = 0

\* The statements pushed to `uncovered`, in the order they are pushed.
UncoveredIds(fileData) ==
  IF ~fileData.hasCounts
    THEN SelectSeq(Keys(fileData.statementMap),
                   LAMBDA id : fileData.statementMap[id].hasStart)
    ELSE SelectSeq(Keys(fileData.s),
                   LAMBDA id : /\ IsUncoveredCount(fileData.s[id])
                               /\ id \in DOMAIN fileData.statementMap)

\* `statement.start.line` of a statement without `start` raises a TypeError;
\* the branch for a file without counts tests `start` first.
\* So does destructuring null, and Object.entries of a missing statementMap,
\* for an entry the guards let through.
FileRaises(fileData) ==
  /\ Analysable(fileData)
  /\ \/ fileData.kind = "null"
     \/ fileData.kind = "object" /\ ~fileData.hasMap /\ ~fileData.hasCounts
     \/ /\ fileData.hasCounts
        /\ \E i \in DOMAIN UncoveredIds(fileData) :
             ~fileData.statementMap[UncoveredIds(fileData)[i]].hasStart

\* uncovered.map(item => item.line).
UncoveredLineList(fileData) ==
  [i \in DOMAIN UncoveredIds(fileData) |->
     fileData.statementMap[UncoveredIds(fileData)[i]].line]

uniqueLines(fileData) == SortAscending(Unique(UncoveredLineList(fileData)))

\* Whether the file gets a key in the result.
HasKey(fileData) == Analysable(fileData) /\ Len(uniqueLines(fileData)) > 0

Returned(files) == [raised |-> FALSE, files |-> files]
Raised == [raised |-> TRUE, files |-> <<>>]

\* The result: per kept file its line numbers (each stands for a {line} object).
extractUncoveredLines(data) ==
  IF \E f \in DOMAIN data : FileRaises(data[f]) THEN Raised
  ELSE Returned([f \in {g \in DOMAIN data : HasKey(data[g])} |->
                   uniqueLines(data[f])])

\* A file's entry in coverage-summary.json: absent, or an object whose
\* lines.pct is absent or a percentage.
NoSummary == [present |-> FALSE, hasPct |-> FALSE, pct |-> 0]
SummaryWithoutPct == [present |-> TRUE, hasPct |-> FALSE, pct |-> 0]
SummaryWithPct(p) == [present |-> TRUE, hasPct |-> TRUE, pct |-> p]
SummaryValues ==
  {NoSummary, SummaryWithoutPct} \cup {SummaryWithPct(p) : p \in {0, 50, 100}}

\* `fileSummary.lines?.pct || 0`.
coveragePercent(summary) == IF summary.hasPct THEN summary.pct ELSE 0

\* Each status text begins with a pictogram, left out here.
StatusNoCoverage == <<"No coverage">>
StatusPerfect == <<"Perfect coverage">>
StatusPartial(n) == toString(n) \o <<" lines uncovered">>

NoEntry ==
  [emitted |-> FALSE, status |-> <<>>, uncoveredLines |-> <<>>,
   totalUncoveredLines |-> 0]

\* Faulty variant: the uncovered lines are looked at before the percentage.
StatusOfLinesFirst(pct, n) ==
  IF n = 0 THEN "perfect" ELSE IF pct = 0 THEN "none" ELSE "partial"

\* The branch taken by the if / else if / else.
StatusOf(pct, n) ==
  IF pct = 0 THEN "none" ELSE IF n = 0 THEN "perfect" ELSE "partial"

\* What the reducer stores under the file's relative path.
FileEntry(summary, lineNumbers) ==
  LET n == Len(lineNumbers)
      rs == IF n > 0 THEN groupLinesIntoRanges(lineNumbers) ELSE <<>>
      branch == StatusOf(coveragePercent(summary), n)
  IN [emitted |-> TRUE,
      status |-> CASE branch = "none" -> StatusNoCoverage
                   [] branch = "perfect" -> StatusPerfect
                   [] OTHER -> StatusPartial(n),
      uncoveredLines |-> CASE branch = "none" -> <<"all">>
                           [] branch = "perfect" -> <<"none">>
                           [] OTHER -> Join(rs, <<",", " ">>),
      totalUncoveredLines |-> n]

\* Faulty variant: the reducer empties the lists it reads.
ReducerConsumes(uncovered) == [k \in DOMAIN uncovered |-> <<>>]
\* uncoveredLines after the reducer: it reads the lists through `map` and
\* groupLinesIntoRanges sorts a copy, so they are as they were.
ReducerLeaves(uncovered) == uncovered

\* The number of times a report is reduced again.
MaxAgain == 2

\* One step of the reducer, for the key fullPath.
ReduceEntry(fullPath, summary, uncovered) ==
  IF ~summary.present THEN NoEntry
  ELSE FileEntry(summary,
                 IF fullPath \in DOMAIN uncovered THEN uncovered[fullPath] ELSE <<>>)

\* ------------------------------------------- results built from the task tree

\* The result states of a test and of a suite; "none" is a task without
\* `result`.
LeafStates == {"pass", "fail", "skip", "none"}
SuiteStates == {"pass", "fail", "none"}
NoSuite == "(none)"
OuterName == "A"
InnerName == "B"

\* A task of type 'test' with its `suite` reference, and one of type 'suite'
\* with its sub-tasks.
TestTask(state, suite) ==
  [type |-> "test", state |-> state, suite |-> suite, tasks |-> <<>>]
SuiteTask(name, state, tasks) ==
  [type |-> "suite", name |-> name, state |-> state, tasks |-> tasks]

\* file => file.tasks non-empty and every top-level task's own state 'pass'.
isFilePassed(file) ==
  /\ Len(file.tasks) # 0
  /\ \A i \in DOMAIN file.tasks : file.tasks[i].state = "pass"

\* getAllTasks(items): the tests of the tree, in order of appearance.
RECURSIVE getAllTasks(_)
getAllTasks(items) ==
  IF items = <<>> THEN <<>>
  ELSE LET item == Head(items)
       IN (IF item.type = "test" THEN <<item>>
           ELSE IF item.type = "suite" THEN getAllTasks(item.tasks)
           ELSE <<>>) \o getAllTasks(Tail(items))

\* Faulty variant: a skipped test is reported as 'skipped'.
AssertionResultThreeWay(task) ==
  [ancestorTitles |-> IF task.suite # NoSuite THEN <<task.suite>> ELSE <<>>,
   status |-> IF task.state = "pass" THEN "passed"
              ELSE IF task.state = "skip" THEN "skipped" ELSE "failed"]
\* One element of assertionResults.
AssertionResult(task) ==
  [ancestorTitles |-> IF task.suite # NoSuite THEN <<task.suite>> ELSE <<>>,
   status |-> IF task.state = "pass" THEN "passed" ELSE "failed"]

\* One element of testResults.
FileResult(file) ==
  LET allTasks == getAllTasks(file.tasks)
  IN [status |-> IF isFilePassed(file) THEN "passed" ELSE "failed",
      assertionResults |-> [i \in DOMAIN allTasks |-> AssertionResult(allTasks[i])]]

\* reduce((sum, r) => sum + r.assertionResults.filter(status).length, 0).
RECURSIVE CountStatus(_, _)
CountStatus(fileResults, status) ==
  IF fileResults = <<>> THEN 0
  ELSE Cardinality({i \in DOMAIN Head(fileResults).assertionResults :
                      Head(fileResults).assertionResults[i].status = status})
       + CountStatus(Tail(fileResults), status)

\* reduce((sum, f) => sum + getAllTasks(f.tasks).length, 0).
RECURSIVE CountTasks(_)
CountTasks(files) ==
  IF files = <<>> THEN 0
  ELSE Len(getAllTasks(Head(files).tasks)) + CountTasks(Tail(files))

NoReport == [built |-> FALSE]
\* The `results` object.
BuildResults(files) ==
  LET fileResults == [i \in DOMAIN files |-> FileResult(files[i])]
  IN [built |-> TRUE,
      numTotalTestSuites |-> Len(files),
      numPassedTestSuites |-> Cardinality({i \in DOMAIN files : isFilePassed(files[i])}),
      numFailedTestSuites |-> Cardinality({i \in DOMAIN files : ~isFilePassed(files[i])}),
      numTotalTests |-> CountTasks(files),
      numPassedTests |-> CountStatus(fileResults, "passed"),
      numFailedTests |-> CountStatus(fileResults, "failed"),
      testResults |-> fileResults]

\* ------------------------------------------------------------- the server

\* The number of tests of a report.
MaxTests == 2

\* null, a parsed report and { rawOutput: text }, as values of a cache.
Null == [kind |-> "null"]
Json(obj) == [kind |-> "json", obj |-> obj]
RawOutput(text) == [kind |-> "raw", text |-> text]

\* The members of a report in the order they are written.
KeyOrder == <<"nt", "np", "nf", "tr">>
RECURSIVE Bodies(_)
Bodies(n) == IF n = 0 THEN <<>> ELSE <<"body">> \o Bodies(n - 1)
MemberText(obj, k) ==
  IF k = "tr" THEN <<"tr", "[">> \o Bodies(obj[k]) \o <<"]">>
  ELSE <<k, DigitChars[obj[k] + 1]>>
RECURSIVE MembersText(_, _, _)
MembersText(obj, keys, first) ==
  IF keys = <<>> THEN <<>>
  ELSE IF Head(keys) \notin DOMAIN obj THEN MembersText(obj, Tail(keys), first)
  ELSE (IF first THEN <<"ws">> ELSE <<",", "ws">>)
       \o MemberText(obj, Head(keys)) \o MembersText(obj, Tail(keys), FALSE)

\* JSON.stringify(value, null, 2).
JSONStringify(value) ==
  CASE value.kind = "null" -> <<"null">>
    [] value.kind = "raw" -> <<"{", "ws", "rawOutput">> \o value.text \o <<"ws", "}">>
    [] OTHER -> IF DOMAIN value.obj = {} THEN <<"{", "}">>
                ELSE <<"{">> \o MembersText(value.obj, KeyOrder, TRUE) \o <<"ws", "}">>

\* What a tool returns as result.content[0].text: a report, or the text of
\* its catch block.
ReportObjects ==
  {<<>>}
  \cup UNION {{[nt |-> t, np |-> p, tr |-> 1] : p \in 1..t} : t \in 1..MaxTests}
ErrorText(t) ==
  IF t = "run-vitest" THEN <<"Error running vitest: ">>
  ELSE <<"Error running vitest with coverage: ">>
\* A result without text content.
NoText == <<>>
ReturnTexts(t) ==
  {JSONStringify(Json(obj)) : obj \in ReportObjects} \cup {ErrorText(t), NoText}

NoCall == [tool |-> "none", text |-> <<>>]

\* An invocation that has not been called, and two of them.
IdleCall == [pc |-> "idle", originalCwd |-> NoDir, projectDir |-> NoDir]
NoCalls == [i \in 1..2 |-> IdleCall]

\* try { JSON.parse(text) } catch { { rawOutput: text } }.
ParsedOrRaw(text) ==
  IF JSONParse(text).ok THEN Json(JSONParse(text).obj) ELSE RawOutput(text)

\* result.content && result.content[0]?.text.
HasText(text) == text # NoText

\* Faulty variant: the catch block is missing, a parse error caches nothing
\* but an empty object.
RvCachedParsedOnly(text) == Json(JSONParse(text).obj)
\* The run-vitest wrapper's assignment to latestTestResults.
RvCached(text) == ParsedOrRaw(text)
\* The coverage wrapper's assignments to the two caches.
RvcCachedCoverage(text) == ParsedOrRaw(text)
\* Faulty variant: the test results follow the coverage results always.
RvcCachedTestsAlways(text, before) == ParsedOrRaw(text)
RvcCachedTests(text, before) ==
  IF JSONParse(text).ok /\ "nt" \in DOMAIN JSONParse(text).obj
  THEN Json(JSONParse(text).obj) ELSE before

TestResultsUri == "vitest://test-results"
CoverageReportUri == "vitest://coverage-report"
TestSummaryUri == "vitest://test-summary"
Uris == {TestResultsUri, CoverageReportUri, TestSummaryUri}

NoTestResults == <<"No test results available. Run 'run-vitest' tool first.">>
NoCoverageResults ==
  <<"No coverage results available. Run 'run-vitest-coverage' tool first.">>

NoResponse == [uri |-> "none", kind |-> "none", text |-> <<>>]
Failure(uri, message) == [uri |-> uri, kind |-> "error", text |-> message]
Contents(uri, text) == [uri |-> uri, kind |-> "contents", text |-> text]

\* `${latestTestResults.key}`.
FieldText(cache, k) ==
  IF cache.kind = "json" /\ k \in DOMAIN cache.obj THEN toString(cache.obj[k])
  ELSE <<"undefined">>
\* ((numPassedTests / numTotalTests) * 100).toFixed(1).
RateText(cache) ==
  IF cache.kind = "json" /\ {"nt", "np"} \subseteq DOMAIN cache.obj
  THEN LET tenths == (2000 * cache.obj["np"] + cache.obj["nt"])
                       \div (2 * cache.obj["nt"])
       IN toString(tenths \div 10) \o <<".">> \o toString(tenths % 10)
  ELSE <<"NaN">>
\* The lines of the summary about tests.
SummaryText(cache) ==
  <<"Total Tests: ">> \o FieldText(cache, "nt")
  \o <<"Passed Tests: ">> \o FieldText(cache, "np")
  \o <<"Failed Tests: ">> \o FieldText(cache, "nf")
  \o <<"Success Rate: ">> \o RateText(cache) \o <<"%">>

\* Faulty variant: the handlers do not look at the cache before they answer.
FalsyNever(cache) == FALSE
\* !cache.
Falsy(cache) == cache = Null

\* The three resource handlers.
Respond(uri, tests, coverage) ==
  CASE uri = TestResultsUri ->
         IF Falsy(tests) THEN Failure(uri, NoTestResults)
         ELSE Contents(uri, JSONStringify(tests))
    [] uri = CoverageReportUri ->
         IF Falsy(coverage) THEN Failure(uri, NoCoverageResults)
         ELSE Contents(uri, JSONStringify(coverage))
    [] OTHER ->
         IF Falsy(tests) THEN Failure(uri, NoTestResults)
         ELSE Contents(uri, SummaryText(tests))

\* ------------------------------------------------------------ path texts

\* Paths as texts: a sequence of separators and names.
NoPaths == [projectDir |-> <<>>, fullPath |-> <<>>]
NoSearch == [startDir |-> <<>>, files |-> {}, found |-> FALSE, result |-> NoDir]

\* The index of the first occurrence of pattern in text, 0 when there is none.
IndexOf(text, pattern) ==
  LET hits == {i \in 1..(Len(text) - Len(pattern) + 1) :
                 SubSeq(text, i, i + Len(pattern) - 1) = pattern}
  IN IF hits = {} THEN 0 ELSE CHOOSE i \in hits : \A j \in hits : i <= j

\* String.prototype.replace with a string pattern: the first occurrence is
\* replaced, a text without one is returned as it is.
replace(text, pattern, replacement) ==
  LET i == IndexOf(text, pattern)
  IN IF i = 0 THEN text
     ELSE SubSeq(text, 1, i - 1) \o replacement
          \o SubSeq(text, i + Len(pattern), Len(text))

\* fullPath.replace(projectDir + '/', '').
relativePathOf(fullPath, dir) == replace(fullPath, dir \o <<"/">>, <<>>)

\* ------------------------------------------------------------------- Init

Init ==
  /\ tool \in Tools
  /\ pc = "idle"
  /\ cwd = StartCwd
  /\ nodeEnv = "unset"
  /\ envDir = NoDir
  /\ projectDir = NoDir
  /\ originalCwd = NoDir
  /\ spawned = FALSE
  /\ closed = FALSE
  /\ exitCode = NullCode
  /\ errored = FALSE
  /\ signals = <<>>
  /\ stdout = <<>>
  /\ stderr = <<>>
  /\ nOut = 0
  /\ nErr = 0
  /\ outputComplete = FALSE
  /\ timeoutArmed = FALSE
  /\ timerFired = FALSE
  /\ graceArmed = FALSE
  /\ promise = Pending
  /\ results = NotParsed
  /\ pollIdx = 0
  /\ waited = <<>>
  /\ coverageSummary = NullDoc
  /\ coverageData = NullDoc
  /\ result = NoResult
  /\ fn = "none"
  /\ done = FALSE
  /\ lines = <<>>
  /\ ranges = <<>>
  /\ fileCoverage = <<>>
  /\ uncoveredLines = Returned(<<>>)
  /\ earlier = <<>>
  /\ fileSummary = NoSummary
  /\ entry = NoEntry
  /\ testFiles = <<>>
  /\ report = NoReport
  /\ argProjectDir = NoDir
  /\ wrapped = FALSE
  /\ latestTestResults = Null
  /\ latestCoverageResults = Null
  /\ lastCall = NoCall
  /\ response = NoResponse
  /\ calls = NoCalls
  /\ pathArgs = NoPaths
  /\ relativePath = <<>>
  /\ search = NoSearch

\* ------------------------------------------------------------ the handler

\* The handler up to its `await`: resolve and validate the directory, set
\* NODE_ENV, change directory, spawn the runner and arm the hard timeout.
Call(argDir) ==
  /\ pc = "idle"
  /\ LET dir == ResolveProjectDir(argDir, envDir, cwd) IN
       /\ projectDir' = dir
       /\ IF ~existsSync(dir)
            THEN /\ pc' = "returned"
                 /\ result' = ErrorResult(ConfigError)
                 /\ UNCHANGED <<cwd, nodeEnv, originalCwd, spawned, timeoutArmed>>
            ELSE /\ pc' = "awaiting"
                 /\ nodeEnv' = "test"
                 /\ originalCwd' = cwd
                 /\ cwd' = dir
                 /\ spawned' = TRUE
                 /\ timeoutArmed' = TRUE
                 /\ UNCHANGED result
  /\ UNCHANGED <<helperVars, tool, envDir, closed, exitCode, errored, signals, stdout, stderr,
                 nOut, nErr, outputComplete, timerFired, graceArmed, promise,
                 results, coverageVars>>

\* The continuation of the awaiting handler runs as a microtask, before any
\* further event of the runner or timer.
ContinuationDue == pc = "awaiting" /\ promise.state # "pending"
EventDue == spawned /\ ~ContinuationDue

\* Faulty variant: the directory is restored on the success path only.
RestoreOnSuccessOnly(threw, original, current) ==
  IF threw THEN current ELSE original

\* process.cwd() once the `finally` block has run.
FinallyCwd(threw, original, current) == original

\* Faulty variant: the parse error is swallowed and an empty report returned.
OnParseErrorPlaceholder(text) ==
  [kind |-> "report", error |-> NoError,
   report |-> [obj |-> <<>>, coverage |-> NoCoverage]]

\* The catch around JSON.parse rethrows; the outer catch turns that into the
\* handler's error text.
OnParseError(text) == ErrorResult(ParseError)

\* run-vitest after the await: parse, return; `finally` and the outer catch.
RvResume ==
  /\ tool = "run-vitest"
  /\ ContinuationDue
  /\ LET parsed == JSONParse(promise.value)
         threw == promise.state = "rejected" \/ ~parsed.ok
     IN /\ results' = IF promise.state = "resolved" THEN parsed ELSE results
        /\ result' = IF promise.state = "rejected" THEN ErrorResult(promise.error)
                     ELSE IF ~parsed.ok THEN OnParseError(promise.value)
                     ELSE RvReport(parsed.obj)
        /\ cwd' = FinallyCwd(threw, originalCwd, cwd)
  /\ pc' = "returned"
  /\ UNCHANGED <<helperVars, tool, nodeEnv, envDir, projectDir, originalCwd, procVars, promise,
                 coverageVars>>

\* run-vitest-coverage after the await: parse, then start polling.
RvcResume ==
  /\ tool = "run-vitest-coverage"
  /\ ContinuationDue
  /\ LET parsed == JSONParse(promise.value)
         threw == promise.state = "rejected" \/ ~parsed.ok
     IN /\ results' = IF promise.state = "resolved" THEN parsed ELSE results
        /\ IF threw
             THEN /\ result' = IF promise.state = "rejected"
                                 THEN ErrorResult(promise.error)
                                 ELSE OnParseError(promise.value)
                  /\ cwd' = FinallyCwd(TRUE, originalCwd, cwd)
                  /\ pc' = "returned"
                  /\ UNCHANGED pollIdx
             ELSE /\ pc' = "polling"
                  /\ pollIdx' = 1
                  /\ UNCHANGED <<result, cwd>>
  /\ UNCHANGED <<helperVars, tool, nodeEnv, envDir, projectDir, originalCwd, procVars, promise,
                 waited, coverageSummary, coverageData>>

\* The rest of run-vitest-coverage once the polling loop is left: build the
\* coverage report and return; `finally` and the outer catch.
RvcFinish(summary, data) ==
  /\ coverageSummary' = summary
  /\ coverageData' = data
  /\ result' = IF ReduceThrows(summary, data) THEN ErrorResult(ReportError)
               ELSE RvcReport(results.obj, summary, data, projectDir)
  /\ cwd' = FinallyCwd(ReduceThrows(summary, data), originalCwd, cwd)
  /\ pc' = "returned"

\* One turn of the polling loop: the delay elapses, the coverage directory is
\* looked for and, when it is there, both files are read.
RvcPoll(dirExists, listingThrows, summarySt, finalSt) ==
  /\ tool = "run-vitest-coverage"
  /\ pc = "polling"
  /\ waited' = Append(waited, delays[pollIdx])
  /\ IF dirExists
       THEN /\ RvcFinish(ReadSummary(listingThrows, summarySt),
                         ReadData(listingThrows, summarySt, finalSt))
            /\ UNCHANGED pollIdx
       ELSE IF pollIdx < NumDelays
         THEN /\ pollIdx' = pollIdx + 1
              /\ UNCHANGED <<pc, cwd, result, coverageSummary, coverageData>>
         ELSE /\ RvcFinish(coverageSummary, coverageData)
              /\ UNCHANGED pollIdx
  /\ UNCHANGED <<helperVars, tool, nodeEnv, envDir, projectDir, originalCwd, procVars, promise,
                 results>>

\* ------------------------------------------------- the runner and the timers

\* Faulty variant: the flag follows the condition on every chunk.
CompleteReevaluated(was, fires) == fires

\* outputComplete after a chunk: set when the condition holds, never cleared.
CompleteAfterChunk(was, fires) == was \/ fires

\* What run-vitest's close handler settles the promise with.
RvCloseOutcome(code, out, err) ==
  IF code = 0 \/ code = 1 THEN Resolved(out) ELSE Rejected(ExitError(code, err))

\* What run-vitest-coverage's close handler settles the promise with.
RvcCloseOutcome(code, out, err) ==
  IF code = 0 /\ Trim(out) # <<>> THEN Resolved(out) ELSE Rejected(ExitError(code, err))

\* Faulty variant: the timeout salvages what was buffered.
TimeoutSalvages(out, err) == Resolved(out)

\* What the hard timeout settles the promise with.
TimeoutOutcome(out, err) == Rejected(TimeoutError(out, err))

\* Faulty variant of run-vitest's stdout handler: the timeout is not cancelled.
RvStdoutDataKeepsTimer(chunk) ==
  /\ tool = "run-vitest"
  /\ EventDue /\ ~closed /\ nOut < MaxChunks
  /\ stdout' = stdout \o chunk
  /\ nOut' = nOut + 1
  /\ outputComplete' = CompleteAfterChunk(outputComplete, RvComplete(stdout'))
  /\ IF RvComplete(stdout') /\ ~outputComplete
       THEN /\ signals' = Append(signals, "SIGTERM")
            /\ graceArmed' = TRUE
       ELSE UNCHANGED <<signals, graceArmed>>
  /\ UNCHANGED <<helperVars, dirVars, pc, spawned, closed, exitCode, errored, stderr, nErr,
                 timeoutArmed, timerFired, promise, results, coverageVars, result>>

\* run-vitest: vitestProcess.stdout.on('data').
RvStdoutData(chunk) ==
  /\ tool = "run-vitest"
  /\ EventDue /\ ~closed /\ nOut < MaxChunks
  /\ stdout' = stdout \o chunk
  /\ nOut' = nOut + 1
  /\ outputComplete' = CompleteAfterChunk(outputComplete, RvComplete(stdout'))
  /\ IF RvComplete(stdout') /\ ~outputComplete
       THEN /\ timeoutArmed' = FALSE
            /\ signals' = Append(signals, "SIGTERM")
            /\ graceArmed' = TRUE
       ELSE UNCHANGED <<timeoutArmed, signals, graceArmed>>
  /\ UNCHANGED <<helperVars, dirVars, pc, spawned, closed, exitCode, errored, stderr, nErr,
                 timerFired, promise, results, coverageVars, result>>

\* run-vitest: the 50 ms timer set on completion resolves with the buffer.
RvGrace ==
  /\ tool = "run-vitest"
  /\ EventDue /\ graceArmed
  /\ graceArmed' = FALSE
  /\ promise' = Settle(promise, Resolved(stdout))
  /\ UNCHANGED <<helperVars, dirVars, pc, spawned, closed, exitCode, errored, signals, stdout,
                 stderr, nOut, nErr, outputComplete, timeoutArmed, timerFired,
                 results, coverageVars, result>>

\* run-vitest: the 15 s timeout.
RvTimeout ==
  /\ tool = "run-vitest"
  /\ EventDue /\ timeoutArmed
  /\ timeoutArmed' = FALSE
  /\ timerFired' = TRUE
  /\ signals' = Append(signals, "SIGKILL")
  /\ promise' = IF ~outputComplete
                  THEN Settle(promise, TimeoutOutcome(stdout, stderr))
                  ELSE promise
  /\ UNCHANGED <<helperVars, dirVars, pc, spawned, closed, exitCode, errored, stdout, stderr,
                 nOut, nErr, outputComplete, graceArmed, results, coverageVars,
                 result>>

\* run-vitest: vitestProcess.on('close').
RvClose(code) ==
  /\ tool = "run-vitest"
  /\ EventDue /\ ~closed
  /\ closed' = TRUE
  /\ exitCode' = code
  /\ IF ~outputComplete
       THEN /\ timeoutArmed' = FALSE
            /\ promise' = Settle(promise, RvCloseOutcome(code, stdout, stderr))
       ELSE UNCHANGED <<timeoutArmed, promise>>
  /\ UNCHANGED <<helperVars, dirVars, pc, spawned, errored, signals, stdout, stderr, nOut, nErr,
                 outputComplete, timerFired, graceArmed, results, coverageVars,
                 result>>

\* run-vitest: vitestProcess.on('error').
RvError ==
  /\ tool = "run-vitest"
  /\ EventDue /\ ~closed /\ ~errored
  /\ errored' = TRUE
  /\ timeoutArmed' = FALSE
  /\ promise' = Settle(promise, Rejected(SpawnError))
  /\ UNCHANGED <<helperVars, dirVars, pc, spawned, closed, exitCode, signals, stdout, stderr,
                 nOut, nErr, outputComplete, timerFired, graceArmed, results,
                 coverageVars, result>>

\* run-vitest-coverage: vitestProcess.stdout.on('data').
RvcStdoutData(chunk) ==
  /\ tool = "run-vitest-coverage"
  /\ EventDue /\ ~closed /\ nOut < MaxChunks
  /\ stdout' = stdout \o chunk
  /\ nOut' = nOut + 1
  /\ outputComplete' = CompleteAfterChunk(outputComplete, RvcComplete(stdout'))
  /\ promise' = IF RvcComplete(stdout') /\ ~outputComplete
                  THEN Settle(promise, Resolved(stdout'))
                  ELSE promise
  /\ UNCHANGED <<helperVars, dirVars, pc, spawned, closed, exitCode, errored, signals, stderr,
                 nErr, timeoutArmed, timerFired, graceArmed, results, coverageVars,
                 result>>

\* run-vitest-coverage: the 60 s fallback timeout, which nothing cancels.
RvcTimeout ==
  /\ tool = "run-vitest-coverage"
  /\ EventDue /\ timeoutArmed
  /\ timeoutArmed' = FALSE
  /\ timerFired' = TRUE
  /\ IF ~outputComplete
       THEN /\ signals' = Append(signals, "SIGTERM")
            /\ promise' = Settle(promise, TimeoutOutcome(stdout, stderr))
       ELSE UNCHANGED <<signals, promise>>
  /\ UNCHANGED <<helperVars, dirVars, pc, spawned, closed, exitCode, errored, stdout, stderr,
                 nOut, nErr, outputComplete, graceArmed, results, coverageVars,
                 result>>

\* run-vitest-coverage: vitestProcess.on('close').
RvcClose(code) ==
  /\ tool = "run-vitest-coverage"
  /\ EventDue /\ ~closed
  /\ closed' = TRUE
  /\ exitCode' = code
  /\ promise' = IF ~outputComplete
                  THEN Settle(promise, RvcCloseOutcome(code, stdout, stderr))
                  ELSE promise
  /\ UNCHANGED <<helperVars, dirVars, pc, spawned, errored, signals, stdout, stderr, nOut, nErr,
                 outputComplete, timeoutArmed, timerFired, graceArmed, results,
                 coverageVars, result>>

\* run-vitest-coverage: vitestProcess.on('error').
RvcError ==
  /\ tool = "run-vitest-coverage"
  /\ EventDue /\ ~closed /\ ~errored
  /\ errored' = TRUE
  /\ promise' = Settle(promise, Rejected(SpawnError))
  /\ UNCHANGED <<helperVars, dirVars, pc, spawned, closed, exitCode, signals, stdout, stderr,
                 nOut, nErr, outputComplete, timeoutArmed, timerFired, graceArmed,
                 results, coverageVars, result>>

\* Both tools: vitestProcess.stderr.on('data').
StderrData(chunk) ==
  /\ EventDue /\ ~closed /\ nErr < MaxErrChunks
  /\ stderr' = stderr \o chunk
  /\ nErr' = nErr + 1
  /\ UNCHANGED <<helperVars, dirVars, pc, spawned, closed, exitCode, errored, signals, stdout,
                 nOut, outputComplete, timeoutArmed, timerFired, graceArmed, promise,
                 results, coverageVars, result>>

\* ------------------------------------------------------------------- Next

Next ==
  \/ \E argDir \in {NoDir, ProjDir, GoneDir} : Call(argDir)
  \/ RvResume
  \/ RvcResume
  \/ \E dirExists, listingThrows \in BOOLEAN, summarySt, finalSt \in FileStates :
       RvcPoll(dirExists, listingThrows, summarySt, finalSt)
  \/ \E chunk \in Chunks : RvStdoutData(chunk)
  \/ RvGrace
  \/ RvTimeout
  \/ \E code \in CloseCodes : RvClose(code)
  \/ RvError
  \/ \E chunk \in Chunks : RvcStdoutData(chunk)
  \/ RvcTimeout
  \/ \E code \in CloseCodes : RvcClose(code)
  \/ RvcError
  \/ \E chunk \in ErrChunks : StderrData(chunk)

Spec == Init /\ [][Next]_vars

\* The event loop gets to every timer that is armed, to the continuation of
\* a settled await, and to the end of each delay of the polling loop. The
\* runner owes nothing: it need not write, close or fail.
Fairness ==
  /\ WF_vars(RvGrace)
  /\ WF_vars(RvTimeout)
  /\ WF_vars(RvcTimeout)
  /\ WF_vars(RvResume)
  /\ WF_vars(RvcResume)
  /\ WF_vars(\E dirExists, listingThrows \in BOOLEAN, summarySt, finalSt \in FileStates :
               RvcPoll(dirExists, listingThrows, summarySt, finalSt))

LiveSpec == Spec /\ Fairness

\* ------------------------------------------- the coverage helpers on their own

\* The arguments the helpers are applied to.
LineLists == UNION {[1..n -> LineValues] : n \in 0..MaxLines}
\* A second file next to the first: skipped, or with one uncovered line.
SecondFile == {NullEntry, ObjectEntry(TRUE, <<Statement(1)>>, TRUE, <<0>>)}
OneFile == {[k \in {AppFile} |-> a] : a \in FileValues}
TwoFiles ==
  {[k \in {AppFile, LibFile} |-> IF k = AppFile THEN a ELSE b] :
     a \in FileValues, b \in SecondFile}

\* The task trees: a file holds at most one suite A, which holds at most one
\* suite B; a test refers to the suite it is declared in.
Tests(suite) == {TestTask(state, suite) : state \in LeafStates}
InnerSuites ==
  {SuiteTask(InnerName, state, tasks) :
     state \in SuiteStates,
     tasks \in {<<>>} \cup {<<t>> : t \in Tests(InnerName)}}
OuterSuites ==
  {SuiteTask(OuterName, state, tasks) :
     state \in SuiteStates,
     tasks \in {<<>>}
              \cup {<<x>> : x \in Tests(OuterName) \cup InnerSuites}
              \cup {<<t, x>> : t \in Tests(OuterName),
                               x \in Tests(OuterName) \cup InnerSuites}}
FileTasks ==
  {<<>>}
  \cup {<<y>> : y \in Tests(NoSuite) \cup OuterSuites}
  \cup {<<y, t>> : y \in Tests(NoSuite) \cup OuterSuites, t \in Tests(NoSuite)}
TestFileLists == {<<>>} \cup {<<[tasks |-> tasks]>> : tasks \in FileTasks}

\* The directories given as args.projectDir or VITEST_PROJECT_DIR, and the
\* working directories the server can be started in.
OtherDir == <<"other">>
TmpDir == <<"tmp">>
GivenDirs == {NoDir, ProjDir, OtherDir, GoneDir}
WorkingDirs == {StartCwd, ProjDir, TmpDir, <<>>}

\* Resolved project roots, the filesystem root among them, and paths of files
\* below a root, relative to it; a text is its separators and its names.
RootTexts == {<<"/">>, <<"/", "p">>, <<"/", "app", "/", "p">>}
FileTexts ==
  {<<"app", "/", "f">>, <<"app", "/", "p", "/", "f">>,
   <<"p", "/", "app", "/", "f">>}
\* path.join(root, file) of a resolved root.
JoinTexts(root, file) ==
  IF root = <<"/">> THEN root \o file ELSE root \o <<"/">> \o file
\* The keys of the coverage data that pass the filter path.includes('/app/').
PathArguments ==
  {args \in {[projectDir |-> root, fullPath |-> JoinTexts(root, file)] :
               root \in RootTexts, file \in FileTexts} :
     IndexOf(args.fullPath, <<"/", "app", "/">>) # 0}

\* Start directories, and file systems of at most two files in them.
SearchDirs == {<<>>, <<"a">>, <<"a", "b">>, <<"c">>}
FileNames == {vitestConfigs[i] : i \in 1..Len(vitestConfigs)} \cup {"package.json"}
FileSystems ==
  {{first, second} : first \in SearchDirs \X FileNames,
                     second \in SearchDirs \X FileNames} \cup {{}}
Searches ==
  {[startDir |-> dir, files |-> files, found |-> FALSE, result |-> NoDir] :
     dir \in SearchDirs, files \in FileSystems}

HelperInit ==
  /\ fn \in {"groupLinesIntoRanges", "extractUncoveredLines", "reducer",
            "results", "projectDir", "relativePath",
            "findProjectDirectory"}
  /\ tool = "run-vitest-coverage"
  /\ pc = "idle"
  /\ cwd \in IF fn = "projectDir" THEN WorkingDirs ELSE {StartCwd}
  /\ nodeEnv = "unset"
  /\ envDir \in IF fn = "projectDir" THEN GivenDirs ELSE {NoDir}
  /\ projectDir = NoDir
  /\ originalCwd = NoDir
  /\ spawned = FALSE
  /\ closed = FALSE
  /\ exitCode = NullCode
  /\ errored = FALSE
  /\ signals = <<>>
  /\ stdout = <<>>
  /\ stderr = <<>>
  /\ nOut = 0
  /\ nErr = 0
  /\ outputComplete = FALSE
  /\ timeoutArmed = FALSE
  /\ timerFired = FALSE
  /\ graceArmed = FALSE
  /\ promise = Pending
  /\ results = NotParsed
  /\ pollIdx = 0
  /\ waited = <<>>
  /\ coverageSummary = NullDoc
  /\ coverageData = NullDoc
  /\ result = NoResult
  /\ done = FALSE
  /\ lines \in IF fn = "groupLinesIntoRanges" THEN LineLists ELSE {<<>>}
  /\ ranges = <<>>
  /\ fileCoverage \in CASE fn = "extractUncoveredLines" -> OneFile \cup TwoFiles
                        [] fn = "reducer" -> OneFile
                        [] OTHER -> {<<>>}
  /\ uncoveredLines = Returned(<<>>)
  /\ earlier = <<>>
  /\ fileSummary \in IF fn = "reducer" THEN SummaryValues ELSE {NoSummary}
  /\ entry = NoEntry
  /\ testFiles \in IF fn = "results" THEN TestFileLists ELSE {<<>>}
  /\ report = NoReport
  /\ argProjectDir \in IF fn = "projectDir" THEN GivenDirs ELSE {NoDir}
  /\ wrapped = FALSE
  /\ latestTestResults = Null
  /\ latestCoverageResults = Null
  /\ lastCall = NoCall
  /\ response = NoResponse
  /\ calls = NoCalls
  /\ pathArgs \in IF fn = "relativePath" THEN PathArguments ELSE {NoPaths}
  /\ relativePath = <<>>
  /\ search \in IF fn = "findProjectDirectory" THEN Searches ELSE {NoSearch}

\* groupLinesIntoRanges(lines).
GroupLines ==
  /\ fn = "groupLinesIntoRanges" /\ ~done
  /\ ranges' = groupLinesIntoRanges(lines)
  /\ done' = TRUE
  /\ UNCHANGED <<buildVars, runVars, fn, lines, fileCoverage, uncoveredLines, earlier,
                 fileSummary, entry>>

\* extractUncoveredLines(coverageData).
ExtractUncovered ==
  /\ fn = "extractUncoveredLines" /\ ~done
  /\ uncoveredLines' = extractUncoveredLines(fileCoverage)
  /\ done' = TRUE
  /\ UNCHANGED <<buildVars, runVars, fn, lines, ranges, fileCoverage, earlier, fileSummary,
                 entry>>

\* extractUncoveredLines again, on the same data except that statement id of
\* the first file, whose count was 0, now has the count n > 0.
ExecuteStatement(id, n) ==
  /\ fn = "extractUncoveredLines" /\ done
  /\ fileCoverage[AppFile].kind = "object" /\ fileCoverage[AppFile].hasCounts
  /\ id \in DOMAIN fileCoverage[AppFile].s
  /\ fileCoverage[AppFile].s[id] = 0
  /\ fileCoverage' = [fileCoverage EXCEPT ![AppFile].s[id] = n]
  /\ uncoveredLines' = extractUncoveredLines(fileCoverage')
  /\ earlier' = Append(earlier, uncoveredLines)
  /\ UNCHANGED <<buildVars, runVars, fn, done, lines, ranges, fileSummary, entry>>

\* The reducer's step for the first file, after extractUncoveredLines.
ReduceFile ==
  /\ fn = "reducer" /\ ~done
  /\ LET extracted == extractUncoveredLines(fileCoverage)
     IN /\ entry' = IF extracted.raised THEN NoEntry
                    ELSE ReduceEntry(AppFile, fileSummary, extracted.files)
        /\ uncoveredLines' =
             IF extracted.raised THEN extracted
             ELSE [extracted EXCEPT !.files = ReducerLeaves(@)]
  /\ done' = TRUE
  /\ UNCHANGED <<buildVars, runVars, fn, lines, ranges, fileCoverage, earlier, fileSummary>>

\* The `results` object built from vitest.state.getFiles().
BuildReport ==
  /\ fn = "results" /\ ~done
  /\ report' = BuildResults(testFiles)
  /\ done' = TRUE
  /\ UNCHANGED <<runVars, fn, lines, ranges, fileCoverage, uncoveredLines,
                 earlier, fileSummary, entry, testFiles, argProjectDir,
                 serverVars>>

\* The handler's resolution of the project directory.
ResolveDirectory ==
  /\ fn = "projectDir" /\ ~done
  /\ projectDir' = ResolveProjectDir(argProjectDir, envDir, cwd)
  /\ done' = TRUE
  /\ UNCHANGED <<tool, pc, cwd, nodeEnv, envDir, originalCwd, procVars, promise,
                 results, coverageVars, result>>
  /\ UNCHANGED <<fn, lines, ranges, fileCoverage, uncoveredLines, earlier,
                 fileSummary, entry, buildVars>>

\* The reducer's step for the first file once more, on the same summary and
\* the same uncoveredLines.
ReduceAgain ==
  /\ fn = "reducer" /\ done /\ ~uncoveredLines.raised
  /\ Len(earlier) < MaxAgain
  /\ entry' = ReduceEntry(AppFile, fileSummary, uncoveredLines.files)
  /\ uncoveredLines' = [uncoveredLines EXCEPT !.files = ReducerLeaves(@)]
  /\ earlier' = Append(earlier, entry)
  /\ UNCHANGED <<buildVars, runVars, fn, done, lines, ranges, fileCoverage,
                 fileSummary>>

\* The reducer's key for one file.
RewritePath ==
  /\ fn = "relativePath" /\ ~done
  /\ relativePath' = relativePathOf(pathArgs.fullPath, pathArgs.projectDir)
  /\ done' = TRUE
  /\ UNCHANGED <<runVars, fn, lines, ranges, fileCoverage, uncoveredLines,
                 earlier, fileSummary, entry, testFiles, report, argProjectDir,
                 wrapped, latestTestResults, latestCoverageResults, lastCall,
                 response, calls, pathArgs, search>>

\* One call of findProjectDirectory(startDir).
FindProject ==
  /\ fn = "findProjectDirectory" /\ ~done
  /\ search' = [search EXCEPT !.found = TRUE,
                               !.result = findProjectDirectory(search.files,
                                                               search.startDir)]
  /\ done' = TRUE
  /\ UNCHANGED <<runVars, fn, lines, ranges, fileCoverage, uncoveredLines,
                 earlier, fileSummary, entry, testFiles, report, argProjectDir,
                 wrapped, latestTestResults, latestCoverageResults, lastCall,
                 response, calls, pathArgs, relativePath>>

HelperNext ==
  \/ GroupLines
  \/ ExtractUncovered
  \/ \E id \in StatementIds, n \in 1..MaxCount : ExecuteStatement(id, n)
  \/ ReduceFile
  \/ ReduceAgain
  \/ BuildReport
  \/ ResolveDirectory
  \/ RewritePath
  \/ FindProject

HelperSpec == HelperInit /\ [][HelperNext]_vars

\* ------------------------------------------------- the server around the tools

ServerInit ==
  /\ tool = "run-vitest"
  /\ pc = "idle"
  /\ cwd = StartCwd
  /\ nodeEnv = "unset"
  /\ envDir = NoDir
  /\ projectDir = NoDir
  /\ originalCwd = NoDir
  /\ spawned = FALSE
  /\ closed = FALSE
  /\ exitCode = NullCode
  /\ errored = FALSE
  /\ signals = <<>>
  /\ stdout = <<>>
  /\ stderr = <<>>
  /\ nOut = 0
  /\ nErr = 0
  /\ outputComplete = FALSE
  /\ timeoutArmed = FALSE
  /\ timerFired = FALSE
  /\ graceArmed = FALSE
  /\ promise = Pending
  /\ results = NotParsed
  /\ pollIdx = 0
  /\ waited = <<>>
  /\ coverageSummary = NullDoc
  /\ coverageData = NullDoc
  /\ result = NoResult
  /\ fn = "none"
  /\ done = FALSE
  /\ lines = <<>>
  /\ ranges = <<>>
  /\ fileCoverage = <<>>
  /\ uncoveredLines = Returned(<<>>)
  /\ earlier = <<>>
  /\ fileSummary = NoSummary
  /\ entry = NoEntry
  /\ testFiles = <<>>
  /\ report = NoReport
  /\ argProjectDir = NoDir
  /\ wrapped \in BOOLEAN
  /\ latestTestResults = Null
  /\ latestCoverageResults = Null
  /\ lastCall = NoCall
  /\ response = NoResponse
  /\ calls = NoCalls
  /\ pathArgs = NoPaths
  /\ relativePath = <<>>
  /\ search = NoSearch

serverRest ==
  <<runVars, fn, done, lines, ranges, fileCoverage, uncoveredLines, earlier,
    fileSummary, entry, testFiles, report, argProjectDir, wrapped, calls,
    pathArgs, search, relativePath>>

\* A call of run-vitest returns text to the client, through the caching
\* wrapper when it is installed.
RunVitestReturns(text) ==
  /\ lastCall' = [tool |-> "run-vitest", text |-> text]
  /\ latestTestResults' =
       IF wrapped /\ HasText(text) THEN RvCached(text) ELSE latestTestResults
  /\ UNCHANGED <<serverRest, latestCoverageResults, response>>

\* A call of run-vitest-coverage returns text to the client.
RunVitestCoverageReturns(text) ==
  /\ lastCall' = [tool |-> "run-vitest-coverage", text |-> text]
  /\ latestCoverageResults' =
       IF wrapped /\ HasText(text)
       THEN RvcCachedCoverage(text) ELSE latestCoverageResults
  /\ latestTestResults' =
       IF wrapped /\ HasText(text)
       THEN RvcCachedTests(text, latestTestResults) ELSE latestTestResults
  /\ UNCHANGED <<serverRest, response>>

\* The client reads a resource.
ReadResource(uri) ==
  /\ response' = Respond(uri, latestTestResults, latestCoverageResults)
  /\ UNCHANGED <<serverRest, latestTestResults, latestCoverageResults, lastCall>>

ServerNext ==
  \/ \E text \in ReturnTexts("run-vitest") : RunVitestReturns(text)
  \/ \E text \in ReturnTexts("run-vitest-coverage") : RunVitestCoverageReturns(text)
  \/ \E uri \in Uris : ReadResource(uri)

ServerSpec == ServerInit /\ [][ServerNext]_vars

\* ------------------------------------------- two invocations in one process

OverlapInit ==
  /\ tool \in Tools
  /\ pc = "idle"
  /\ cwd \in ExistingDirs
  /\ nodeEnv = "unset"
  /\ envDir = NoDir
  /\ projectDir = NoDir
  /\ originalCwd = NoDir
  /\ spawned = FALSE
  /\ closed = FALSE
  /\ exitCode = NullCode
  /\ errored = FALSE
  /\ signals = <<>>
  /\ stdout = <<>>
  /\ stderr = <<>>
  /\ nOut = 0
  /\ nErr = 0
  /\ outputComplete = FALSE
  /\ timeoutArmed = FALSE
  /\ timerFired = FALSE
  /\ graceArmed = FALSE
  /\ promise = Pending
  /\ results = NotParsed
  /\ pollIdx = 0
  /\ waited = <<>>
  /\ coverageSummary = NullDoc
  /\ coverageData = NullDoc
  /\ result = NoResult
  /\ fn = "none"
  /\ done = FALSE
  /\ lines = <<>>
  /\ ranges = <<>>
  /\ fileCoverage = <<>>
  /\ uncoveredLines = Returned(<<>>)
  /\ earlier = <<>>
  /\ fileSummary = NoSummary
  /\ entry = NoEntry
  /\ testFiles = <<>>
  /\ report = NoReport
  /\ argProjectDir = NoDir
  /\ wrapped = FALSE
  /\ latestTestResults = Null
  /\ latestCoverageResults = Null
  /\ lastCall = NoCall
  /\ response = NoResponse
  /\ calls = NoCalls
  /\ pathArgs = NoPaths
  /\ relativePath = <<>>
  /\ search = NoSearch

overlapRest ==
  <<tool, pc, nodeEnv, envDir, projectDir, originalCwd, procVars, promise,
    results, coverageVars, result, fn, done, lines, ranges, fileCoverage,
    uncoveredLines, earlier, fileSummary, entry, testFiles, report,
    argProjectDir, wrapped, latestTestResults, latestCoverageResults, lastCall,
    response, pathArgs, search, relativePath>>

\* Invocation i up to its `await`; the second is called while the first is
\* awaiting its runner.
CallOverlapping(i, argDir) ==
  /\ calls[i].pc = "idle"
  /\ i = 2 => calls[1].pc = "awaiting"
  /\ LET dir == ResolveProjectDir(argDir, envDir, cwd) IN
       IF ~existsSync(dir)
         THEN /\ calls' = [calls EXCEPT ![i].pc = "returned", ![i].projectDir = dir]
              /\ UNCHANGED cwd
         ELSE /\ calls' = [calls EXCEPT ![i] = [pc |-> "awaiting",
                                                originalCwd |-> cwd,
                                                projectDir |-> dir]]
              /\ cwd' = dir
  /\ UNCHANGED overlapRest

\* Invocation i after its `await`, through `finally`, whether it threw or not.
ReturnOverlapping(i, threw) ==
  /\ calls[i].pc = "awaiting"
  /\ calls' = [calls EXCEPT ![i].pc = "returned"]
  /\ cwd' = FinallyCwd(threw, calls[i].originalCwd, cwd)
  /\ UNCHANGED overlapRest

OverlapNext ==
  \/ \E i \in 1..2, argDir \in {NoDir, GoneDir} \cup ExistingDirs :
       CallOverlapping(i, argDir)
  \/ \E i \in 1..2, threw \in BOOLEAN : ReturnOverlapping(i, threw)

OverlapSpec == OverlapInit /\ [][OverlapNext]_vars

\* ------------------------------------------------------------------ claims

\* The three conditions of the completion heuristic, spelled out on the text.
AllThreeHold(s) ==
  /\ Includes(s, <<"tr", "[">>)
  /\ EndsWith(Trim(s), <<"]", "}">>)
  /\ Includes(s, <<"nt">>) /\ Includes(s, <<"np">>)

\* C1: in both tools outputComplete is set only by a chunk after which the
\* accumulated stdout contains the results-list marker, ends (trimmed) with
\* the closing sequence and contains both aggregate markers.
C1_CompletionOnlyWhenAllThreeHold ==
  [][(~outputComplete /\ outputComplete') => AllThreeHold(stdout')]_vars

C1_Witness ==
  /\ tool = "run-vitest" /\ outputComplete /\ nOut = 3
  /\ stdout = ChunkTotal \o ChunkPassedResults \o ChunkClose

\* C2 as stated: with the chunks '{"numTotalTests":3,' then
\* '"numPassedTests":2,"testResults":[' then '...],"numFailedTests":1}' the
\* heuristic has not fired after chunk 1 or chunk 2 and has fired after chunk 3.
C2_AsStated ==
  /\ (nOut = 1 /\ stdout = ChunkTotal) => ~outputComplete
  /\ (nOut = 2 /\ stdout = ChunkTotal \o ChunkPassedResults) => ~outputComplete
  /\ (nOut = 3 /\ stdout = ChunkTotal \o ChunkPassedResults \o ChunkFailedLast)
       => outputComplete

\* C2 amended: with those three chunks the heuristic fires after none of them,
\* the text ending with '1}' and not with ']}'; it has fired once the third
\* chunk closes the payload right after the results list ('...]}').
C2_FiresOnlyOnClosingSequence ==
  /\ (nOut = 1 /\ stdout = ChunkTotal) => ~outputComplete
  /\ (nOut = 2 /\ stdout = ChunkTotal \o ChunkPassedResults) => ~outputComplete
  /\ (nOut = 3 /\ stdout = ChunkTotal \o ChunkPassedResults \o ChunkFailedLast)
       => ~outputComplete
  /\ (nOut = 3 /\ stdout = ChunkTotal \o ChunkPassedResults \o ChunkClose)
       => outputComplete

C2_Witness ==
  /\ tool = "run-vitest-coverage" /\ nOut = 3 /\ ~outputComplete
  /\ stdout = ChunkTotal \o ChunkPassedResults \o ChunkFailedLast

\* C3 as stated: a chunk after which the three conditions hold, completion not
\* yet signalled, signals completion, whatever else is true of the buffer.
C3_AsStated ==
  [][(stdout' # stdout /\ ~outputComplete /\ AllThreeHold(stdout'))
       => outputComplete']_vars

\* C3 amended: it does so in run-vitest-coverage; in run-vitest it does so
\* when the accumulated text is also longer than 500 characters.
C3_FiresWhenConditionsHold ==
  [][(/\ stdout' # stdout /\ ~outputComplete /\ AllThreeHold(stdout')
      /\ (tool = "run-vitest" => Length(stdout') > 500))
       => outputComplete']_vars

C3_Witness ==
  /\ tool = "run-vitest-coverage" /\ outputComplete
  /\ AllThreeHold(stdout) /\ Length(stdout) <= 500

\* C4 as stated: in both tools, once the heuristic has fired the runner has
\* been signalled and no timeout is pending, and the promise is not resolved
\* by the chunk that fired it.
C4_AsStated ==
  /\ [](outputComplete => (~timeoutArmed /\ signals # <<>>))
  /\ [][(~outputComplete /\ outputComplete') => promise'.state # "resolved"]_vars

\* C4 amended: run-vitest cancels the timeout, sends SIGTERM and resolves with
\* the buffer only when the 50 ms timer runs; run-vitest-coverage resolves at
\* once with the buffer, sends no signal and leaves the 60 s timer pending,
\* whose callback then does nothing.
C4_CompletionBranch ==
  /\ [][(~outputComplete /\ outputComplete') =>
          IF tool = "run-vitest"
            THEN /\ ~timeoutArmed' /\ graceArmed'
                 /\ signals' = Append(signals, "SIGTERM")
                 /\ promise' = promise
            ELSE /\ timeoutArmed' = timeoutArmed /\ signals' = signals
                 /\ promise.state = "pending" => promise' = Resolved(stdout')
                 /\ promise.state # "pending" => promise' = promise]_vars
  /\ [][(tool = "run-vitest" /\ outputComplete /\ promise'.state = "resolved"
         /\ promise.state = "pending")
          => (graceArmed /\ ~graceArmed' /\ promise'.value = stdout)]_vars
  /\ [][(tool = "run-vitest-coverage" /\ outputComplete /\ timeoutArmed
         /\ ~timeoutArmed') => (signals' = signals /\ promise' = promise)]_vars
  /\ []((tool = "run-vitest" /\ outputComplete)
          => (~timeoutArmed /\ \E i \in DOMAIN signals : signals[i] = "SIGTERM"))

C4_Witness ==
  /\ tool = "run-vitest" /\ outputComplete /\ ~graceArmed
  /\ promise = Resolved(stdout) /\ signals = <<"SIGTERM">>

\* C5: in both tools, a close that comes before the heuristic has fired, the
\* run still pending and something buffered, resolves with the buffered stdout
\* when the exit code is 0 or 1 and otherwise rejects with an error that
\* carries the stderr.
C5_CloseBeforeCompletion ==
  [][(/\ ~closed /\ closed' /\ ~outputComplete /\ promise.state = "pending"
      /\ Trim(stdout) # <<>>) =>
       IF exitCode' = 0 \/ exitCode' = 1
         THEN promise' = Resolved(stdout)
         ELSE /\ promise'.state = "rejected"
              /\ promise'.error.kind = "exit"
              /\ promise'.error.stderr = stderr]_vars

C7_CompletionMonotone == [][outputComplete => outputComplete']_vars

C7_Witness ==
  /\ outputComplete /\ closed /\ nErr > 0
  /\ ~EndsWith(Trim(stdout), <<"]", "}">>)

\* C8: whenever the handler has returned, on any path, the process working
\* directory is the one it was called in.
C8_CwdRestored == pc = "returned" => cwd = StartCwd

C8_Witness ==
  /\ pc = "returned" /\ result.kind = "error" /\ result.error.kind = "exit"
  /\ originalCwd = StartCwd /\ projectDir # StartCwd /\ cwd = StartCwd

\* C9: whatever the state of the two coverage files, a run-vitest-coverage
\* call whose runner output parsed returns the run report, never an error.
C9_ArtifactsNeverFatal ==
  (tool = "run-vitest-coverage" /\ pc = "returned" /\ results.ok)
    => (result.kind = "report" /\ result.report.obj = [k \in {"nt", "np", "nf", "tr"} |-> OrZero(results.obj, k)])

\* C10 as stated: output that is not valid JSON is surfaced as a structured
\* placeholder, and only launch, configuration and timeout errors are
\* returned as an error text.
C10_AsStated ==
  /\ (pc = "returned" /\ promise.state = "resolved" /\ ~JSONParse(promise.value).ok)
       => result.kind # "error"
  /\ result.kind = "error" => result.error.kind \in {"spawn", "config", "timeout"}

\* C10 amended: output that is not valid JSON is returned as an error text
\* ('Failed to parse vitest output as JSON') and as nothing else, like the
\* launch, timeout and exit code errors.
C10_ParseErrorIsTextual ==
  (pc = "returned" /\ promise.state = "resolved" /\ ~JSONParse(promise.value).ok)
    => (result.kind = "error" /\ result.error.kind = "parse" /\ result.report = <<>>)

C10_Witness ==
  /\ pc = "returned" /\ promise.state = "resolved" /\ outputComplete
  /\ ~JSONParse(promise.value).ok /\ result.error.kind = "parse"

\* C11: a returned result is either an error text carrying no report, or a
\* report of a run whose promise resolved and whose output parsed, in which
\* every count and the results list are those the runner's payload carried;
\* no returned count is one the payload did not report.
C11_NoFabricatedCounts ==
  pc = "returned" =>
    \/ result.kind = "error" /\ result.report = <<>>
    \/ /\ result.kind = "report"
       /\ promise.state = "resolved" /\ results.ok
       /\ \A k \in DOMAIN result.report.obj :
            k \in DOMAIN results.obj /\ result.report.obj[k] = results.obj[k]

\* C12: a call whose resolved project directory does not exist returns the
\* 'Project directory does not exist' error in the same step, spawns nothing
\* and leaves the working directory and NODE_ENV as they were.
C12_MissingDirectoryReportedAtOnce ==
  [][pc = "idle" /\ pc' # "idle" /\ projectDir' \notin ExistingDirs
       => /\ pc' = "returned"
          /\ result' = ErrorResult(ConfigError)
          /\ ~spawned' /\ ~timeoutArmed' /\ signals' = <<>>
          /\ cwd' = cwd /\ nodeEnv' = nodeEnv]_vars
\* A call for the missing directory has returned the configuration error.
C12_Witness ==
  /\ pc = "returned" /\ projectDir = GoneDir
  /\ result.error.kind = "config"
  /\ ~spawned /\ cwd = StartCwd /\ nodeEnv = "unset"

\* Reading a rendered entry back: the number a digit string denotes, and the
\* set of lines an entry 'N' or 'A-B' stands for.
DigitOf(ch) == CHOOSE d \in 0..9 : DigitChars[d + 1] = ch
RECURSIVE NumberOf(_)
NumberOf(chars) ==
  IF chars = <<>> THEN 0
  ELSE 10 * NumberOf(SubSeq(chars, 1, Len(chars) - 1)) + DigitOf(chars[Len(chars)])
IsPair(e) == \E i \in DOMAIN e : e[i] = "-"
DashAt(e) == CHOOSE i \in DOMAIN e : e[i] = "-"
StartOf(e) == IF IsPair(e) THEN NumberOf(SubSeq(e, 1, DashAt(e) - 1)) ELSE NumberOf(e)
EndOf(e) == IF IsPair(e) THEN NumberOf(SubSeq(e, DashAt(e) + 1, Len(e))) ELSE NumberOf(e)
Expand(e) == StartOf(e)..EndOf(e)
ExpandAll(rs) == UNION {Expand(rs[i]) : i \in DOMAIN rs}
Elements(s) == {s[i] : i \in DOMAIN s}
NoRepeats(s) == \A i, j \in DOMAIN s : i # j => s[i] # s[j]

\* C13: expanding every entry groupLinesIntoRanges returns ('N' to {N}, 'A-B'
\* to A..B) and taking the union gives exactly the set of the lines it was
\* given, in whatever order they came; no lines give no entries.
C13_RoundTrip ==
  fn = "groupLinesIntoRanges" /\ done =>
    /\ ExpandAll(ranges) = Elements(lines)
    /\ (lines = <<>> => ranges = <<>>)
\* Applied to distinct lines out of order that form a run and a single line.
C13_Witness ==
  /\ fn = "groupLinesIntoRanges" /\ done
  /\ NoRepeats(lines) /\ Len(lines) >= 3
  /\ \E i \in DOMAIN lines : i > 1 /\ lines[i] < lines[i - 1]
  /\ \E i, j \in DOMAIN ranges : IsPair(ranges[i]) /\ ~IsPair(ranges[j])
  /\ \E i \in DOMAIN ranges : Len(ranges[i]) >= 4

\* C14: for lines with repeated values groupLinesIntoRanges returns what it
\* returns for the lines without the repeats, with no entry twice and no two
\* entries that overlap.
C14_DuplicatesCollapse ==
  fn = "groupLinesIntoRanges" /\ done =>
    /\ ranges = groupLinesIntoRanges(Unique(lines))
    /\ \A i, j \in DOMAIN ranges :
         i # j => ranges[i] # ranges[j] /\ Expand(ranges[i]) \cap Expand(ranges[j]) = {}

\* C15: for any lines, the entries are in strictly ascending order of their
\* start, an entry is written 'A-B' only when A < B, consecutive entries are
\* at least 2 apart, and two given lines that differ by 1 are in one entry.
C15_AscendingMinimalEntries ==
  fn = "groupLinesIntoRanges" /\ done =>
    /\ \A i \in DOMAIN ranges : IsPair(ranges[i]) => StartOf(ranges[i]) < EndOf(ranges[i])
    /\ \A i \in DOMAIN ranges :
         i > 1 => /\ StartOf(ranges[i - 1]) < StartOf(ranges[i])
                  /\ EndOf(ranges[i - 1]) + 2 <= StartOf(ranges[i])
    /\ \A x, y \in Elements(lines) :
         y = x + 1 => \E i \in DOMAIN ranges : {x, y} \subseteq Expand(ranges[i])

\* The lines a result reports for a file: none when the file has no key.
LinesOf(res, f) == IF f \in DOMAIN res.files THEN Elements(res.files[f]) ELSE {}
\* The start lines of the statements of a file's statement map.
MapLines(fileData) ==
  {fileData.statementMap[id].line :
     id \in {i \in DOMAIN fileData.statementMap : fileData.statementMap[i].hasStart}}
\* The lines that carry a statement whose count is exactly 0.
ZeroCountLines(fileData) ==
  {fileData.statementMap[id].line :
     id \in {i \in DOMAIN fileData.statementMap \cap DOMAIN fileData.s :
               fileData.s[i] = 0 /\ fileData.statementMap[i].hasStart}}
HasObjectWithMap(fileData) == fileData.kind = "object" /\ fileData.hasMap
\* Every statement of the file has a start position.
WellFormed(fileData) ==
  \A id \in DOMAIN fileData.statementMap : fileData.statementMap[id].hasStart

\* C16: when extractUncoveredLines returns, then for every file that is an
\* object with a statement map it reports, if the file has no counts object,
\* the lines of all statements of the map, and otherwise exactly the lines
\* carrying a statement whose count is 0; every reported line is the start
\* line of a statement of that file's map.
C16_UncoveredLinesComputed ==
  fn = "extractUncoveredLines" /\ done /\ ~uncoveredLines.raised =>
    \A f \in DOMAIN fileCoverage :
      HasObjectWithMap(fileCoverage[f]) =>
        /\ LinesOf(uncoveredLines, f) =
             IF fileCoverage[f].hasCounts THEN ZeroCountLines(fileCoverage[f])
             ELSE MapLines(fileCoverage[f])
        /\ LinesOf(uncoveredLines, f) \subseteq MapLines(fileCoverage[f])
\* A file with counts, one statement never run and one run, on different lines.
C16_Witness ==
  /\ fn = "extractUncoveredLines" /\ done /\ ~uncoveredLines.raised
  /\ HasObjectWithMap(fileCoverage[AppFile]) /\ fileCoverage[AppFile].hasCounts
  /\ WellFormed(fileCoverage[AppFile])
  /\ DOMAIN fileCoverage[AppFile].statementMap = {1, 2}
  /\ DOMAIN fileCoverage[AppFile].s = {1, 2}
  /\ fileCoverage[AppFile].s[1] = 0 /\ fileCoverage[AppFile].s[2] > 0
  /\ fileCoverage[AppFile].statementMap[1].line # fileCoverage[AppFile].statementMap[2].line
  /\ LinesOf(uncoveredLines, AppFile) = {fileCoverage[AppFile].statementMap[1].line}

\* The malformations of an entry that are skipped: null, not an object, no
\* statement map.  Any other entry here is an object whose statements all
\* have a start position.
Skippable(fileData) == fileData.kind # "object" \/ ~fileData.hasMap
\* C17: on data whose entries are null, not objects, without a statement map
\* or well formed, extractUncoveredLines does not raise; the skipped entries
\* get no key, and the well-formed entries are processed as if alone.
C17_MalformedEntriesSkipped ==
  ( /\ fn = "extractUncoveredLines" /\ done
    /\ \A f \in DOMAIN fileCoverage :
         Skippable(fileCoverage[f]) \/ WellFormed(fileCoverage[f]) )
  => ( /\ ~uncoveredLines.raised
       /\ \A f \in DOMAIN fileCoverage :
            IF Skippable(fileCoverage[f]) THEN f \notin DOMAIN uncoveredLines.files
            ELSE LinesOf(uncoveredLines, f) =
                   IF fileCoverage[f].hasCounts THEN ZeroCountLines(fileCoverage[f])
                   ELSE MapLines(fileCoverage[f]) )
\* The first file is null and the second is valid with an uncovered line.
C17_Witness ==
  /\ fn = "extractUncoveredLines" /\ done
  /\ DOMAIN fileCoverage = {AppFile, LibFile}
  /\ fileCoverage[AppFile].kind = "null"
  /\ HasObjectWithMap(fileCoverage[LibFile])
  /\ ~uncoveredLines.raised
  /\ DOMAIN uncoveredLines.files = {LibFile}
  /\ uncoveredLines.files[LibFile] = <<1>>

\* C18: every list in the map extractUncoveredLines returns is non-empty and
\* strictly ascending (so without repeats), and a file whose uncovered set is
\* empty has no key.
C18_UniqueAscendingNonEmpty ==
  (fn = "extractUncoveredLines" /\ done /\ ~uncoveredLines.raised) =>
    /\ \A f \in DOMAIN uncoveredLines.files :
         LET ls == uncoveredLines.files[f]
         IN /\ Len(ls) >= 1
            /\ \A i \in DOMAIN ls : i > 1 => ls[i - 1] < ls[i]
    /\ \A f \in DOMAIN fileCoverage :
         ( /\ HasObjectWithMap(fileCoverage[f])
           /\ (IF fileCoverage[f].hasCounts THEN ZeroCountLines(fileCoverage[f])
               ELSE MapLines(fileCoverage[f])) = {} )
         => f \notin DOMAIN uncoveredLines.files
\* Two uncovered statements, the later one on the earlier line.
C18_Witness ==
  /\ fn = "extractUncoveredLines" /\ done /\ ~uncoveredLines.raised
  /\ HasObjectWithMap(fileCoverage[AppFile]) /\ WellFormed(fileCoverage[AppFile])
  /\ DOMAIN fileCoverage[AppFile].statementMap = {1, 2}
  /\ fileCoverage[AppFile].statementMap[1].line > fileCoverage[AppFile].statementMap[2].line
  /\ AppFile \in DOMAIN uncoveredLines.files
  /\ Len(uncoveredLines.files[AppFile]) = 2

\* C19: when a statement's count goes from 0 to a positive value in a file
\* with a counts object, the file's uncovered lines afterwards are among those
\* before, and a line is dropped only if no statement on it is left with a
\* count of 0.
C19_ExecutingNeverAddsLines ==
  [][( /\ fn = "extractUncoveredLines" /\ done
       /\ fileCoverage' # fileCoverage
       /\ ~uncoveredLines.raised /\ ~uncoveredLines'.raised )
     => /\ LinesOf(uncoveredLines', AppFile) \subseteq LinesOf(uncoveredLines, AppFile)
        /\ LinesOf(uncoveredLines', LibFile) = LinesOf(uncoveredLines, LibFile)
        /\ \A l \in LinesOf(uncoveredLines, AppFile) \ LinesOf(uncoveredLines', AppFile) :
             \A id \in DOMAIN fileCoverage'[AppFile].statementMap
                         \cap DOMAIN fileCoverage'[AppFile].s :
               fileCoverage'[AppFile].statementMap[id].line = l
                 => fileCoverage'[AppFile].s[id] > 0]_vars
\* Two statements on one line, both never run; one has since been run and the
\* line is still uncovered.
C19_Witness ==
  /\ fn = "extractUncoveredLines" /\ done /\ Len(earlier) = 1
  /\ ~earlier[1].raised /\ ~uncoveredLines.raised
  /\ HasObjectWithMap(fileCoverage[AppFile]) /\ WellFormed(fileCoverage[AppFile])
  /\ DOMAIN fileCoverage[AppFile].statementMap = {1, 2}
  /\ DOMAIN fileCoverage[AppFile].s = {1, 2}
  /\ fileCoverage[AppFile].statementMap[1].line = fileCoverage[AppFile].statementMap[2].line
  /\ fileCoverage[AppFile].s[1] > 0 /\ fileCoverage[AppFile].s[2] = 0
  /\ LinesOf(uncoveredLines, AppFile) = LinesOf(earlier[1], AppFile)
  /\ LinesOf(uncoveredLines, AppFile) # {}

RECURSIVE SplitList(_, _)
\* The parts of a text joined with ', ': cur is the part being read.
SplitList(text, cur) ==
  IF text = <<>> THEN <<cur>>
  ELSE IF Len(text) >= 2 /\ text[1] = "," /\ text[2] = " "
    THEN <<cur>> \o SplitList(SubSeq(text, 3, Len(text)), <<>>)
  ELSE SplitList(Tail(text), Append(cur, Head(text)))

\* C20: an emitted entry whose summary carries a line percentage has, when
\* that percentage is 0, the status 'No coverage' and uncoveredLines 'all'
\* whatever lines are uncovered; otherwise, with no uncovered lines, 'Perfect
\* coverage' and 'none'; otherwise 'N lines uncovered', N being the number of
\* uncovered lines, and the entries of groupLinesIntoRanges joined with ', '.
C20_StatusPriority ==
  (fn = "reducer" /\ done /\ entry.emitted /\ fileSummary.hasPct) =>
    LET unc == IF AppFile \in DOMAIN uncoveredLines.files
                 THEN uncoveredLines.files[AppFile] ELSE <<>>
    IN /\ entry.totalUncoveredLines = Len(unc)
       /\ IF fileSummary.pct = 0
            THEN entry.status = <<"No coverage">> /\ entry.uncoveredLines = <<"all">>
          ELSE IF Len(unc) = 0
            THEN entry.status = <<"Perfect coverage">>
                 /\ entry.uncoveredLines = <<"none">>
          ELSE /\ entry.status[Len(entry.status)] = " lines uncovered"
               /\ NumberOf(SubSeq(entry.status, 1, Len(entry.status) - 1)) = Len(unc)
               /\ SplitList(entry.uncoveredLines, <<>>) = groupLinesIntoRanges(unc)
               /\ ExpandAll(SplitList(entry.uncoveredLines, <<>>)) = Elements(unc)
\* A half-covered file with the uncovered lines 1 and 3.
C20_Witness ==
  /\ fn = "reducer" /\ done /\ entry.emitted
  /\ fileSummary.hasPct /\ fileSummary.pct = 50
  /\ entry.uncoveredLines = <<"1", ",", " ", "3">>
  /\ entry.status = <<"2", " lines uncovered">>

\* C21: a returned coverage report whose summary table was read has exactly
\* one entry for every file of the summary table, under the file's path
\* relative to the project directory, wherever the file lies and whether or
\* not the detailed coverage data names it.
C21_EntryPerSummaryFile ==
  ( /\ pc = "returned" /\ tool = "run-vitest-coverage"
    /\ result.kind = "report" /\ ~coverageSummary.isNull )
  => /\ result.report.coverage.kind = "entries"
     /\ result.report.coverage.files =
          {RelativePath(path, projectDir) : path \in coverageSummary.files}

\* C22: in every emitted entry totalUncoveredLines is the number of distinct
\* lines extractUncoveredLines reports for the file, whatever the status; for
\* a partially covered file the rendered ranges expand to exactly those lines.
C22_TotalIsDistinctLineCount ==
  (fn = "reducer" /\ done /\ entry.emitted) =>
    /\ entry.totalUncoveredLines = Cardinality(LinesOf(uncoveredLines, AppFile))
    /\ entry.uncoveredLines \notin {<<"all">>, <<"none">>} =>
         /\ ExpandAll(SplitList(entry.uncoveredLines, <<>>)) =
              LinesOf(uncoveredLines, AppFile)
         /\ Cardinality(ExpandAll(SplitList(entry.uncoveredLines, <<>>))) =
              entry.totalUncoveredLines
\* A file without coverage whose two never-run statements share one line.
C22_Witness ==
  /\ fn = "reducer" /\ done /\ entry.emitted
  /\ fileSummary.hasPct /\ fileSummary.pct = 0
  /\ entry.uncoveredLines = <<"all">>
  /\ DOMAIN fileCoverage[AppFile].statementMap = {1, 2}
  /\ Len(UncoveredLineList(fileCoverage[AppFile])) = 2
  /\ entry.totalUncoveredLines = 1

\* The result states of the leaf tests of a task tree, at any depth.
RECURSIVE LeafStatesIn(_)
LeafStatesIn(items) ==
  IF items = <<>> THEN {}
  ELSE (IF Head(items).type = "test" THEN {Head(items).state}
        ELSE LeafStatesIn(Head(items).tasks)) \cup LeafStatesIn(Tail(items))

\* C23: a test file is reported as 'passed' if and only if it has at least
\* one task and every leaf test of its tree, at any depth, has the result
\* state 'pass'.
C23_FilePassedIffAllLeavesPass ==
  (fn = "results" /\ done) =>
    \A i \in DOMAIN testFiles :
      (report.testResults[i].status = "passed")
        <=> ( /\ testFiles[i].tasks # <<>>
              /\ LeafStatesIn(testFiles[i].tasks) \subseteq {"pass"} )

\* The report the tool in use returns for a parsed payload.
ReportFor(obj) ==
  IF tool = "run-vitest" THEN RvReport(obj)
  ELSE RvcReport(obj, coverageSummary, coverageData, projectDir)

\* C24: the totals of a returned report are not copied from the count fields
\* the runner reports: with the same list of results and any other number in
\* one of the runner's count fields, the report would be the same.
C24_TotalsNotCopiedFromRunner ==
  (pc = "returned" /\ result.kind = "report" /\ results.ok) =>
    \A k \in NumKeys \cap DOMAIN results.obj, n \in 0..3 :
      ReportFor([results.obj EXCEPT ![k] = n]) = result

\* The names of the suites around each leaf test of a task tree, outermost
\* first, in the order of the leaves.
RECURSIVE AncestorPaths(_, _)
AncestorPaths(items, path) ==
  IF items = <<>> THEN <<>>
  ELSE (IF Head(items).type = "test" THEN <<path>>
        ELSE AncestorPaths(Head(items).tasks, Append(path, Head(items).name)))
       \o AncestorPaths(Tail(items), path)

\* C25: every leaf test is reported with the names of all its ancestor
\* suites, from the outermost to the innermost.
C25_AncestorPathAccumulated ==
  (fn = "results" /\ done) =>
    \A i \in DOMAIN testFiles :
      [j \in DOMAIN report.testResults[i].assertionResults |->
         report.testResults[i].assertionResults[j].ancestorTitles]
        = AncestorPaths(testFiles[i].tasks, <<>>)

\* C26: once a call of run-vitest has returned results, reading
\* vitest://test-results returns the results of that run, the most recent
\* one.
C26_LatestRunReadBack ==
  [][ ( /\ ReadResource(TestResultsUri)
        /\ lastCall.tool = "run-vitest"
        /\ JSONParse(lastCall.text).ok
        /\ "nt" \in DOMAIN JSONParse(lastCall.text).obj )
      => ( /\ response'.kind = "contents"
           /\ JSONParse(response'.text) = JSONParse(lastCall.text) ) ]_vars

\* C27: while no test results are cached, reading vitest://test-results or
\* vitest://test-summary fails with 'No test results available'; while no
\* coverage results are cached, reading vitest://coverage-report fails with
\* 'No coverage results available'.
C27_EmptyCacheReadsFail ==
  [][ /\ \A uri \in {TestResultsUri, TestSummaryUri} :
           (ReadResource(uri) /\ latestTestResults = Null)
             => response' = Failure(uri, NoTestResults)
      /\ (ReadResource(CoverageReportUri) /\ latestCoverageResults = Null)
           => response' = Failure(CoverageReportUri, NoCoverageResults) ]_vars
\* The coverage report was read and refused while test results are cached.
C27_Witness ==
  /\ response = Failure(CoverageReportUri, NoCoverageResults)
  /\ latestCoverageResults = Null
  /\ latestTestResults # Null

\* The directories from d upwards, short of the root, that hold a config
\* file.
ConfigAbove(d) == {SubSeq(d, 1, n) : n \in 1..Len(d)} \cap ConfigDirs

\* C28: the project directory is the projectDir argument when given, else
\* VITEST_PROJECT_DIR when set, else the nearest directory upwards with a
\* config file, else the current working directory.
C28_DirectoryPriority ==
  (fn = "projectDir" /\ done) =>
    projectDir =
      IF argProjectDir # NoDir THEN argProjectDir
      ELSE IF envDir # NoDir THEN envDir
      ELSE IF ConfigAbove(cwd) # {}
        THEN CHOOSE d \in ConfigAbove(cwd) : \A e \in ConfigAbove(cwd) : Len(e) <= Len(d)
      ELSE cwd
\* Both an argument and the environment name a directory, different ones, and
\* the search would have found a third: the argument's was taken.
C28_Witness ==
  /\ fn = "projectDir" /\ done
  /\ argProjectDir = OtherDir
  /\ envDir = GoneDir
  /\ ConfigAbove(cwd) # {}
  /\ projectDir = OtherDir

C30_SettlesExactlyOnce ==
  /\ spawned ~> (promise.state # "pending")
  /\ spawned ~> (pc = "returned")
  /\ [][promise.state # "pending" => promise' = promise]_vars
  /\ [][pc = "returned" => result' = result]_vars
\* The timeout delivered the failure; the runner's close event came later.
C30_Witness ==
  /\ spawned /\ pc = "returned"
  /\ promise.state = "rejected" /\ promise.error.kind = "timeout"
  /\ timerFired /\ closed
  /\ result = ErrorResult(promise.error)

\* C31: once the completion heuristic has fired and the run is still pending,
\* no event makes the run fail: the promise is never rejected.
C31_CompletionIsSuccess ==
  [][(outputComplete /\ promise.state = "pending") => promise'.state # "rejected"]_vars

\* C32: in run-vitest, the text the 50 ms timer resolves with is the buffer
\* that satisfied the heuristic; in particular it satisfies the heuristic, no
\* later chunk being part of it.
C32_ResolvedTextIsFiringBuffer ==
  [][( /\ tool = "run-vitest" /\ outputComplete /\ graceArmed
       /\ promise.state = "pending" /\ promise'.state = "resolved" )
     => RvComplete(promise'.value)]_vars

\* C33: when the second invocation was called while the first was awaiting
\* and both have returned, in either order, the working directory is the one
\* the first invocation was called in.
C33_CwdRestoredAfterOverlap ==
  ( /\ calls[1].pc = "returned" /\ calls[1].originalCwd # NoDir
    /\ calls[2].pc = "returned" )
  => cwd = calls[1].originalCwd

\* C34: the polling loop checks the coverage directory at most three times,
\* after delays of 100, 500 and 1000 ms in that order; a check that finds the
\* directory ends the loop whatever could be read, a check that does not is
\* followed by the next one only while fewer than three were made; and the
\* loop always ends.
C34_BoundedPolling ==
  /\ [](waited = SubSeq(<<100, 500, 1000>>, 1, Len(waited)))
  /\ [](pc = "polling" => Len(waited) < 3)
  /\ [][\A listingThrows \in BOOLEAN, summarySt, finalSt \in FileStates :
          RvcPoll(TRUE, listingThrows, summarySt, finalSt) => pc' = "returned"]_vars
  /\ [][\A listingThrows \in BOOLEAN, summarySt, finalSt \in FileStates :
          RvcPoll(FALSE, listingThrows, summarySt, finalSt)
            => pc' = (IF Len(waited') < 3 THEN "polling" ELSE "returned")]_vars
  /\ (pc = "polling") ~> (pc = "returned")
\* The directory was there at the second check and the summary could not be
\* read: the loop ended there.
C34_Witness ==
  /\ tool = "run-vitest-coverage" /\ pc = "returned" /\ results.ok
  /\ waited = <<100, 500>>
  /\ coverageSummary.isNull

\* What C35 says of a coverage result with text, from one state to the next.
CoverageResultCached(text) ==
  IF JSONParse(text).ok
    THEN /\ latestCoverageResults' = Json(JSONParse(text).obj)
         /\ latestTestResults' = IF "nt" \in DOMAIN JSONParse(text).obj
                                   THEN Json(JSONParse(text).obj)
                                   ELSE latestTestResults
    ELSE /\ latestCoverageResults' = RawOutput(text)
         /\ latestTestResults' = latestTestResults

TestResultCached(text) ==
  /\ lastCall'.text = text
  /\ ~HasText(text) => latestTestResults' = latestTestResults
  /\ (HasText(text) /\ ~JSONParse(text).ok) => latestTestResults' = RawOutput(text)

RECURSIVE LeafStateSeq(_)
LeafStateSeq(items) ==
  IF items = <<>> THEN <<>>
  ELSE (IF Head(items).type = "test" THEN <<Head(items).state>>
        ELSE LeafStateSeq(Head(items).tasks)) \o LeafStateSeq(Tail(items))

\* C37: a leaf test is reported 'passed' if and only if its result state is
\* 'pass' and 'failed' otherwise, a missing result included; passed and
\* failed tests add up to the total, and so do passed and failed suites.
C37_LeafStatusAndSums ==
  (fn = "results" /\ done) =>
    /\ \A i \in DOMAIN testFiles :
         LET states == LeafStateSeq(testFiles[i].tasks)
             reported == report.testResults[i].assertionResults
         IN /\ Len(reported) = Len(states)
            /\ \A j \in DOMAIN states :
                 reported[j].status = IF states[j] = "pass" THEN "passed" ELSE "failed"
    /\ report.numPassedTests + report.numFailedTests = report.numTotalTests
    /\ report.numPassedTestSuites + report.numFailedTestSuites
         = report.numTotalTestSuites
\* A test without a result inside a suite, next to a passed one.
C37_Witness ==
  /\ fn = "results" /\ done /\ Len(testFiles) = 1
  /\ LeafStateSeq(testFiles[1].tasks) = <<"pass", "none", "skip">>
  /\ report.numTotalTests = 3 /\ report.numPassedTests = 1
  /\ report.numFailedTests = 2

\* C38: the key of a coverage entry is the file's path relative to the
\* project root: joined to the root again it is the absolute path, and it
\* does not begin with a separator.
C38_KeyIsRelativePath ==
  (fn = "relativePath" /\ done) =>
    /\ relativePath # <<>> /\ Head(relativePath) # "/"
    /\ JoinTexts(pathArgs.projectDir, relativePath) = pathArgs.fullPath

\* The directories from d up to and including the root.
PathToRoot(d) == {SubSeq(d, 1, n) : n \in 0..Len(d)}
\* Those of them that hold a file with one of the six names.
ConfigOnPath(files, d) ==
  {e \in PathToRoot(d) :
     \E name \in {vitestConfigs[i] : i \in 1..Len(vitestConfigs)} :
       <<e, name>> \in files}

\* C39: findProjectDirectory(startDir) returns the nearest directory on the
\* path from startDir up to and including the filesystem root that holds one
\* of the six config file names, and null when no directory on the path does.
C39_NearestConfigUpToRoot ==
  (fn = "findProjectDirectory" /\ done) =>
    LET onPath == ConfigOnPath(search.files, search.startDir)
    IN search.result =
         IF onPath = {} THEN NoDir
         ELSE CHOOSE d \in onPath : \A e \in onPath : Len(e) <= Len(d)

============================================================================
